---- MODULE Spec2Model ----
(***************************************************************************)
(* HabitTrack (VinayKadel/TO-DO): the HTTP API over tasks, completions and *)
(* notes, the date utilities that bucket instants into calendar days, the  *)
(* habit grid's toggle path and the daily to-do text codec.                *)
(*                                                                         *)
(* Instants are whole hours since 1970-01-01T00:00Z.  A date-only string   *)
(* "yyyy-MM-dd" is the record [y, m, d]; an ISO string with a time is the  *)
(* record [y, m, d, h] (UTC).  Months are 0-based as in JavaScript.        *)
(***************************************************************************)
EXTENDS Integers, Sequences, FiniteSets, TLC

\* ------------------------------------------------------------------------
\* Bounds of the model
\* ------------------------------------------------------------------------
MaxTasks == 2          \* task rows ever created in one behaviour
MaxNotes == 1          \* free-form note rows ever created in one behaviour
MaxDays == 2           \* calendar days the requests and the grid range over
MaxInFlight == 2       \* toggle requests that run side by side
MaxText == 4           \* pieces in the text of a to-do item
MaxItems == 2          \* items in a to-do list
MaxBlocks == 3         \* blocks in a free-form note
MaxShow == 7            \* the largest daysToShow asked of generateDateColumns
MaxEdits == 3           \* edits made in one editor

\* ------------------------------------------------------------------------
\* Calendar arithmetic of the JavaScript Date object (proleptic Gregorian)
\* ------------------------------------------------------------------------
FloorDiv(a, b) == IF a >= 0 THEN a \div b ELSE -((-a + b - 1) \div b)

\* Date.UTC(year, month, day, 0): days since the epoch of a civil date.
DaysFromCivil(year, month, day) ==
    LET m   == month + 1
        y   == IF m <= 2 THEN year - 1 ELSE year
        era == FloorDiv(y, 400)
        yoe == y - era * 400
        mp  == IF m > 2 THEN m - 3 ELSE m + 9
        doy == (153 * mp + 2) \div 5 + day - 1
        doe == yoe * 365 + yoe \div 4 - yoe \div 100 + doy
    IN  era * 146097 + doe - 719468

\* The civil date [y, m, d] of a day number.
CivilFromDays(z) ==
    LET zz  == z + 719468
        era == FloorDiv(zz, 146097)
        doe == zz - era * 146097
        yoe == (doe - doe \div 1460 + doe \div 36524 - doe \div 146096) \div 365
        doy == doe - (365 * yoe + yoe \div 4 - yoe \div 100)
        mp  == (5 * doy + 2) \div 153
        d   == doy - (153 * mp + 2) \div 5 + 1
        m   == IF mp < 10 THEN mp + 3 ELSE mp - 9
        y   == yoe + era * 400 + (IF m <= 2 THEN 1 ELSE 0)
    IN  [y |-> y, m |-> m - 1, d |-> d]

\* getFullYear/getMonth/getDate of instant t in a runtime whose zone is
\* off hours ahead of UTC.
LocalParts(t, off) == CivilFromDays(FloorDiv(t + off, 24))

\* getUTCFullYear/getUTCMonth/getUTCDate of instant t.
UTCParts(t) == CivilFromDays(FloorDiv(t, 24))

\* Date.UTC(year, month, day, hour)
DateUTC(year, month, day, hour) == DaysFromCivil(year, month, day) * 24 + hour

\* Date.prototype.toISOString: the UTC fields of the instant.
toISOString(t) ==
    LET p == UTCParts(t)
    IN  [y |-> p.y, m |-> p.m, d |-> p.d, h |-> t - FloorDiv(t, 24) * 24]

\* new Date(string): a date-only string is UTC midnight of that day, a
\* string with a time and "Z" is that UTC instant.
NewDate(s) ==
    IF "h" \in DOMAIN s THEN DateUTC(s.y, s.m, s.d, s.h)
    ELSE DateUTC(s.y, s.m, s.d, 0)

\* date-fns format(date, 'yyyy-MM-dd') in a runtime at offset off.
FormatYMD(t, off) == LocalParts(t, off)

\* date-fns startOfDay(date) in a runtime at offset off.
startOfDay(t, off) == FloorDiv(t + off, 24) * 24 - off

\* src/unnamed/part_011:132 - the earlier formatDateForStorage (local
\* midnight, printed in UTC).
formatDateForStorageLocalMidnight(date, off) == toISOString(startOfDay(date, off))

\* formatDateForStorage(date) evaluated in a runtime at offset off.
formatDateForStorage(date, off) ==
    LET p == LocalParts(date, off)
    IN  toISOString(DateUTC(p.y, p.m, p.d, 12))

\* parseToUTCNoon(dateStr) evaluated on a server at offset off.
parseToUTCNoon(dateStr, off) ==
    LET p == LocalParts(NewDate(dateStr), off)
    IN  DateUTC(p.y, p.m, p.d, 12)

\* isTaskCompletedOnDate(completions, targetDate) evaluated in a runtime at
\* offset off; completions carry their date as an ISO string.
isTaskCompletedOnDate(comps, targetDate, off) ==
    LET target == LocalParts(targetDate, off)
    IN  \E c \in comps :
            /\ UTCParts(NewDate(c.date)) = target
            /\ c.completed

\* ------------------------------------------------------------------------
\* State
\* ------------------------------------------------------------------------
VARIABLES
    tasks,          \* Task rows: [id, userId, isActive, isCompleted, sortOrder, createdAt]
    completions,    \* TaskCompletion rows: [id, taskId, date, completed]
    notes,          \* Note rows: [id, userId, content]
    dailyNotes,     \* DailyNote rows: [userId, date, content]
    nextTask,       \* task rows created so far (ids and createdAt are 1, 2, ...)
    nextNote,       \* note rows created so far
    serverTz,       \* hours the server's zone is ahead of UTC
    req,            \* the request handled last: [op, user, ...]
    resp,           \* its response: [status, data, dbCalls]
    inflight,       \* toggle requests running side by side, one per slot
    clientTz,       \* hours the browser's zone is ahead of UTC
    grid,           \* the habit grid: [tasks, checked]
    fmt,            \* the last formatDateForStorage call: [in, out]
    codec,          \* a to-do list, its stored text and the list read back
    cols,           \* the last generateDateColumns call: [center, days, out]
    editor,         \* the free-form note editor: [blocks, last]
    autosave,       \* an editor's debounce timer and the saves it sent
    todo,           \* the daily to-do view: items, cached note, saves in flight
    habit,          \* the habit grid's optimistic state and its request
    tab             \* the dashboard: local storage and the active tab

dbVars == <<tasks, completions, notes, dailyNotes, nextTask, nextNote>>
vars == <<tasks, completions, notes, dailyNotes, nextTask, nextNote, serverTz, req, resp,
          inflight, clientTz, grid, fmt, codec, cols, editor, autosave, todo, habit, tab>>
raceVars == <<inflight>>
widgetVars == <<autosave, todo, habit, tab>>
uiVars == <<cols, editor, widgetVars>>
clientVars == <<clientTz, grid, fmt, codec, cols, editor, widgetVars>>

Users == {"u1", "u2"}
NoSession == "anonymous"
Sessions == Users \cup {NoSession}
TaskIds == 1..MaxTasks
NoteIds == 1..MaxNotes

\* The calendar days requests range over: 2024-02-28, 2024-02-29, ...
\* Server zones the API is checked under.
ServerOffsets == {0}

FirstDay == DaysFromCivil(2024, 1, 28)
Days == FirstDay..(FirstDay + MaxDays - 1)

\* "yyyy-MM-dd" of a day number, and the ISO string of its UTC noon.
DateOnly(day) == CivilFromDays(day)
IsoNoon(day) == toISOString(day * 24 + 12)
DateStrings == {DateOnly(d) : d \in Days} \cup {IsoNoon(d) : d \in Days}

\* A body that fails schema validation (or is missing a required field).
Malformed == [malformed |-> TRUE]

NoData == <<>>
Response(status, data, dbCalls) == [status |-> status, data |-> data, dbCalls |-> dbCalls]

\* ------------------------------------------------------------------------
\* Prisma queries
\* ------------------------------------------------------------------------
\* FindTask without the userId condition.
FindTaskAnyOwner(id, user) == {t \in tasks : t.id = id}

\* prisma.task.findFirst({ where: { id, userId } })
FindTask(id, user) == {t \in tasks : t.id = id /\ t.userId = user}

\* prisma.taskCompletion.findUnique({ where: { taskId_date } })
FindCompletion(comps, taskId, date) ==
    {c \in comps : c.taskId = taskId /\ c.date = date}

\* A fresh row id (cuid): the key and the least generation number that no
\* row carries and no running request remembers.
FreshId(comps, held, taskId, date) ==
    LET used == {c.id : c \in comps} \cup held
        gen  == CHOOSE n \in 0..Cardinality(used) :
                    /\ [taskId |-> taskId, date |-> date, gen |-> n] \notin used
                    /\ \A k \in 0..(n - 1) :
                           [taskId |-> taskId, date |-> date, gen |-> k] \in used
    IN  [taskId |-> taskId, date |-> date, gen |-> gen]

\* ToggleWrite with the un-check path writing completed = false to the row
\* it found instead of deleting it.
ToggleWriteKeepsRow(comps, liveTasks, held, existing, taskId, date, completed) ==
    IF existing # {} THEN
        LET e == CHOOSE c \in existing : TRUE
        IN  [ok |-> TRUE,
             comps |-> {IF c.id = e.id THEN [c EXCEPT !.completed = completed] ELSE c
                           : c \in comps}]
    ELSE IF completed
         THEN [ok |-> TRUE,
               comps |-> comps \cup {[id |-> FreshId(comps, held, taskId, date),
                                      taskId |-> taskId, date |-> date,
                                      completed |-> TRUE]}]
         ELSE [ok |-> TRUE, comps |-> comps]

\* ToggleWrite on a table without the unique index on (taskId, date).
ToggleWriteNoUniqueIndex(comps, liveTasks, held, existing, taskId, date, completed) ==
    IF existing # {} THEN
        LET e == CHOOSE c \in existing : TRUE
        IN  IF ~\E c \in comps : c.id = e.id THEN [ok |-> FALSE, comps |-> comps]
            ELSE IF completed
            THEN [ok |-> TRUE,
                  comps |-> {IF c.id = e.id THEN [c EXCEPT !.completed = TRUE] ELSE c
                                : c \in comps}]
            ELSE [ok |-> TRUE, comps |-> {c \in comps : c.id # e.id}]
    ELSE IF completed /\ \E t \in liveTasks : t.id = taskId
         THEN [ok |-> TRUE,
               comps |-> comps \cup {[id |-> FreshId(comps, held, taskId, date),
                                      taskId |-> taskId, date |-> date,
                                      completed |-> TRUE]}]
         ELSE [ok |-> completed = FALSE, comps |-> comps]

\* ToggleWrite with a create that, on a unique-constraint violation, falls
\* back to the row that is there and succeeds.
ToggleWriteRetries(comps, liveTasks, held, existing, taskId, date, completed) ==
    IF completed /\ existing = {} /\ FindCompletion(comps, taskId, date) # {}
    THEN [ok |-> TRUE, comps |-> comps]
    ELSE ToggleWriteNoUniqueIndex(comps, liveTasks, held, existing, taskId, date, completed)

\* The create/update/delete of the completions POST handler, given the row
\* the handler found (a set of at most one row).  ok = FALSE is a Prisma
\* error: a unique-constraint or foreign-key violation on create, a missing
\* row on update or delete.
ToggleWrite(comps, liveTasks, held, existing, taskId, date, completed) ==
    IF completed THEN
        IF existing # {} THEN
            LET e == CHOOSE c \in existing : TRUE
            IN  IF \E c \in comps : c.id = e.id
                THEN [ok |-> TRUE,
                      comps |-> {IF c.id = e.id THEN [c EXCEPT !.completed = TRUE] ELSE c
                                    : c \in comps}]
                ELSE [ok |-> FALSE, comps |-> comps]
        ELSE
            IF \/ FindCompletion(comps, taskId, date) # {}
               \/ ~\E t \in liveTasks : t.id = taskId
            THEN [ok |-> FALSE, comps |-> comps]
            ELSE [ok |-> TRUE,
                  comps |-> comps \cup {[id |-> FreshId(comps, held, taskId, date), taskId |-> taskId,
                                         date |-> date, completed |-> TRUE]}]
    ELSE
        IF existing # {} THEN
            LET e == CHOOSE c \in existing : TRUE
            IN  IF \E c \in comps : c.id = e.id
                THEN [ok |-> TRUE, comps |-> {c \in comps : c.id # e.id}]
                ELSE [ok |-> FALSE, comps |-> comps]
        ELSE [ok |-> TRUE, comps |-> comps]

\* ------------------------------------------------------------------------
\* /api/completions
\* ------------------------------------------------------------------------
ToggleBodies == [taskId : TaskIds, date : DateStrings, completed : BOOLEAN]

\* toggleCompletionSchema: { taskId: string, date: string, completed: boolean }
ValidToggleBody(body) == DOMAIN body = {"taskId", "date", "completed"}

\* POST /api/completions, run to completion with no other request between
\* its queries.
PostCompletion(s, body) ==
    /\ req' = [op |-> "POST /api/completions", user |-> s, body |-> body]
    /\ UNCHANGED <<tasks, notes, dailyNotes, nextTask, nextNote, serverTz>>
    /\ IF s = NoSession THEN
           /\ resp' = Response(401, NoData, 0)
           /\ UNCHANGED completions
       ELSE IF ~ValidToggleBody(body) THEN
           /\ resp' = Response(400, NoData, 0)
           /\ UNCHANGED completions
       ELSE IF FindTask(body.taskId, s) = {} THEN
           /\ resp' = Response(404, NoData, 1)
           /\ UNCHANGED completions
       ELSE
           LET completionDate == parseToUTCNoon(body.date, serverTz)
               existing == FindCompletion(completions, body.taskId, completionDate)
               w == ToggleWrite(completions, tasks, {}, existing, body.taskId,
                                completionDate, body.completed)
               calls == IF body.completed \/ existing # {} THEN 3 ELSE 2
           IN  /\ completions' = w.comps
               /\ resp' = IF w.ok
                          THEN Response(200, [taskId |-> body.taskId,
                                              date |-> toISOString(completionDate),
                                              completed |-> body.completed], calls)
                          ELSE Response(500, NoData, calls)

\* The (startDate, endDate) query pairs of the list requests.
DateRanges == {<<DateOnly(a), IsoNoon(b)>> : a \in Days, b \in Days}
NoRange == <<>>

InRange(c, range) ==
    range = NoRange \/ (NewDate(range[1]) <= c.date /\ c.date <= NewDate(range[2]))

\* prisma.taskCompletion.findMany({ where: { task: { userId }, date: { gte, lte } } })
ListCompletions(user, range) ==
    {c \in completions :
        /\ \E t \in tasks : t.id = c.taskId /\ t.userId = user
        /\ InRange(c, range)}

\* GET /api/completions?startDate=&endDate=
GetCompletions(s, range) ==
    /\ req' = [op |-> "GET /api/completions", user |-> s, range |-> range]
    /\ UNCHANGED <<dbVars, serverTz>>
    /\ IF s = NoSession THEN resp' = Response(401, NoData, 0)
       ELSE IF range = NoRange THEN resp' = Response(400, NoData, 0)
       ELSE resp' = Response(200, ListCompletions(s, range), 1)

\* ------------------------------------------------------------------------
\* /api/tasks, /api/tasks/{id}, /api/tasks/reorder
\* ------------------------------------------------------------------------
\* Column defaults of a new Task row (prisma/schema.prisma).
DefaultSortOrder == 0
DefaultIsActive == TRUE
DefaultIsCompleted == FALSE

\* onDelete: Cascade of TaskCompletion.task (prisma/schema.prisma): the
\* completion rows that survive the deletion of task id.
CascadeDelete(comps, id) == {c \in comps : c.taskId # id}

\* orderBy: [{ sortOrder: 'asc' }, { createdAt: 'asc' }]
TaskBefore(a, b) ==
    \/ a.sortOrder < b.sortOrder
    \/ (a.sortOrder = b.sortOrder /\ a.createdAt < b.createdAt)

RECURSIVE OrderTasks(_)
OrderTasks(rows) ==
    IF rows = {} THEN <<>>
    ELSE LET first == CHOOSE a \in rows : \A b \in rows \ {a} : TaskBefore(a, b)
         IN  <<first>> \o OrderTasks(rows \ {first})

\* The rows GET /api/tasks selects for a user, in its order, each with its
\* completions (all of them, or those of the date range).
ListTasks(user, range) ==
    LET rows == OrderTasks({t \in tasks : t.userId = user /\ t.isActive})
    IN  [i \in 1..Len(rows) |->
            [id |-> rows[i].id, userId |-> rows[i].userId,
             sortOrder |-> rows[i].sortOrder,
             completions |-> {c \in completions :
                                 c.taskId = rows[i].id /\ InRange(c, range)}]]

\* GET /api/tasks[?startDate=&endDate=]
GetTasks(s, range) ==
    /\ req' = [op |-> "GET /api/tasks", user |-> s, range |-> range]
    /\ UNCHANGED <<dbVars, serverTz>>
    /\ IF s = NoSession THEN resp' = Response(401, NoData, 0)
       ELSE resp' = Response(200, ListTasks(s, range), 1)

\* A string of n letters.
Letters(n) == [i \in 1..n |-> "a"]

CreateBodies == {[name |-> Letters(5)]}

HexDigits ==
    {"0", "1", "2", "3", "4", "5", "6", "7", "8", "9",
     "a", "b", "c", "d", "e", "f", "A", "B", "C", "D", "E", "F"}

\* z.string().regex(/^#[0-9A-Fa-f]{6}$/)
MatchesColor(color) ==
    /\ Len(color) = 7
    /\ color[1] = "#"
    /\ \A i \in 2..7 : color[i] \in HexDigits

\* createTaskSchema without the pattern on color.
CreateTaskSchemaAnyColor(body) ==
    /\ "name" \in DOMAIN body
    /\ Len(body.name) >= 1 /\ Len(body.name) <= 100
    /\ "description" \in DOMAIN body => Len(body.description) <= 500

\* createTaskSchema.safeParse(body).success
CreateTaskSchema(body) ==
    /\ "name" \in DOMAIN body
    /\ Len(body.name) >= 1 /\ Len(body.name) <= 100
    /\ "description" \in DOMAIN body => Len(body.description) <= 500
    /\ "color" \in DOMAIN body => MatchesColor(body.color)

\* POST /api/tasks
PostTask(s, body) ==
    /\ req' = [op |-> "POST /api/tasks", user |-> s, body |-> body]
    /\ UNCHANGED <<completions, notes, dailyNotes, nextNote, serverTz>>
    /\ IF s = NoSession THEN
           /\ resp' = Response(401, NoData, 0)
           /\ UNCHANGED <<tasks, nextTask>>
       ELSE IF ~CreateTaskSchema(body) THEN
           /\ resp' = Response(400, NoData, 0)
           /\ UNCHANGED <<tasks, nextTask>>
       ELSE
           /\ nextTask < MaxTasks
           /\ nextTask' = nextTask + 1
           /\ tasks' = tasks \cup {[id |-> nextTask + 1, userId |-> s,
                                    isActive |-> DefaultIsActive,
                                    isCompleted |-> DefaultIsCompleted,
                                    sortOrder |-> DefaultSortOrder,
                                    createdAt |-> nextTask + 1]}
           /\ resp' = Response(201, [id |-> nextTask + 1], 1)

\* GET /api/tasks/{id}
GetTask(s, id) ==
    /\ req' = [op |-> "GET /api/tasks/{id}", user |-> s, id |-> id]
    /\ UNCHANGED <<dbVars, serverTz>>
    /\ IF s = NoSession THEN resp' = Response(401, NoData, 0)
       ELSE IF FindTask(id, s) = {} THEN resp' = Response(404, NoData, 1)
       ELSE resp' = Response(200,
                {[id |-> t.id, userId |-> t.userId,
                  completions |-> {c \in completions : c.taskId = t.id}]
                    : t \in FindTask(id, s)}, 1)

PatchBodies == {[isActive |-> TRUE], [isActive |-> FALSE]}

\* The keys of updateTaskSchema; z.object drops every other key of the body.
UpdateTaskKeys == {"name", "description", "color", "isActive"}

\* updateTaskSchema.safeParse(body).success
UpdateTaskSchema(body) ==
    /\ body # Malformed
    /\ "name" \in DOMAIN body => (Len(body.name) >= 1 /\ Len(body.name) <= 100)
    /\ "description" \in DOMAIN body => Len(body.description) <= 500
    /\ "color" \in DOMAIN body => MatchesColor(body.color)

\* validationResult.data
UpdateData(body) == [k \in DOMAIN body \cap UpdateTaskKeys |-> body[k]]

\* The row prisma.task.update({ data }) writes: the columns data names.
UpdatedTask(t, data) ==
    [t EXCEPT !.isActive = IF "isActive" \in DOMAIN data THEN data.isActive ELSE @,
              !.isCompleted = IF "isCompleted" \in DOMAIN data THEN data.isCompleted ELSE @]

\* PATCH /api/tasks/{id}
PatchTask(s, id, body) ==
    /\ req' = [op |-> "PATCH /api/tasks/{id}", user |-> s, id |-> id, body |-> body]
    /\ UNCHANGED <<completions, notes, dailyNotes, nextTask, nextNote, serverTz>>
    /\ IF s = NoSession THEN
           /\ resp' = Response(401, NoData, 0)
           /\ UNCHANGED tasks
       ELSE IF FindTask(id, s) = {} THEN
           /\ resp' = Response(404, NoData, 1)
           /\ UNCHANGED tasks
       ELSE IF ~UpdateTaskSchema(body) THEN
           /\ resp' = Response(400, NoData, 1)
           /\ UNCHANGED tasks
       ELSE
           /\ tasks' = {IF t.id = id THEN UpdatedTask(t, UpdateData(body)) ELSE t
                           : t \in tasks}
           /\ resp' = Response(200, [id |-> id], 2)

\* DeleteTaskRows as a soft delete: the row is marked inactive and kept.
DeleteTaskRowsSoft(id) ==
    [tasks |-> {IF t.id = id THEN [t EXCEPT !.isActive = FALSE] ELSE t : t \in tasks},
     completions |-> completions]

\* What prisma.task.delete({ where: { id } }) leaves of the two tables.
DeleteTaskRows(id) ==
    [tasks |-> {t \in tasks : t.id # id},
     completions |-> CascadeDelete(completions, id)]

\* DELETE /api/tasks/{id}
DeleteTask(s, id) ==
    /\ req' = [op |-> "DELETE /api/tasks/{id}", user |-> s, id |-> id]
    /\ UNCHANGED <<notes, dailyNotes, nextTask, nextNote, serverTz>>
    /\ IF s = NoSession THEN
           /\ resp' = Response(401, NoData, 0)
           /\ UNCHANGED <<tasks, completions>>
       ELSE IF FindTask(id, s) = {} THEN
           /\ resp' = Response(404, NoData, 1)
           /\ UNCHANGED <<tasks, completions>>
       ELSE
           /\ tasks' = DeleteTaskRows(id).tasks
           /\ completions' = DeleteTaskRows(id).completions
           /\ resp' = Response(200, NoData, 2)

\* The taskIds arrays of reorder requests: every non-empty list of ids up to
\* the number of ids, repeated ids included.
ReorderLists == UNION {[1..n -> TaskIds] : n \in 1..MaxTasks}

SeqRange(q) == {q[i] : i \in DOMAIN q}

\* FindOwnedIn without the userId condition.
FindAnyIn(taskIds, user) == {t \in tasks : t.id \in SeqRange(taskIds)}

\* prisma.task.findMany({ where: { id: { in: taskIds }, userId } })
FindOwnedIn(taskIds, user) == {t \in tasks : t.id \in SeqRange(taskIds) /\ t.userId = user}

\* ApplySortOrder numbering the positions from 1.
ApplySortOrderFromOne(rows, taskIds) ==
    {IF \E i \in DOMAIN taskIds : taskIds[i] = t.id
     THEN [t EXCEPT !.sortOrder = CHOOSE i \in DOMAIN taskIds : taskIds[i] = t.id]
     ELSE t : t \in rows}

\* taskIds.map((taskId, index) => update({ where: { id: taskId },
\* data: { sortOrder: index } })), every update applied.
ApplySortOrder(rows, taskIds) ==
    {IF \E i \in DOMAIN taskIds : taskIds[i] = t.id
     THEN [t EXCEPT !.sortOrder =
              (CHOOSE i \in DOMAIN taskIds :
                  /\ taskIds[i] = t.id
                  /\ \A j \in DOMAIN taskIds : taskIds[j] = t.id => j <= i) - 1]
     ELSE t : t \in rows}

\* PUT /api/tasks/reorder
PutReorder(s, taskIds) ==
    /\ req' = [op |-> "PUT /api/tasks/reorder", user |-> s, taskIds |-> taskIds]
    /\ UNCHANGED <<completions, notes, dailyNotes, nextTask, nextNote, serverTz>>
    /\ IF s = NoSession THEN
           /\ resp' = Response(401, NoData, 0)
           /\ UNCHANGED tasks
       ELSE IF taskIds \notin ReorderLists THEN
           /\ resp' = Response(400, NoData, 0)
           /\ UNCHANGED tasks
       ELSE IF Cardinality(FindOwnedIn(taskIds, s)) # Len(taskIds) THEN
           /\ resp' = Response(404, NoData, 1)
           /\ UNCHANGED tasks
       ELSE
           /\ tasks' = ApplySortOrder(tasks, taskIds)
           /\ resp' = Response(200, NoData, 1 + Len(taskIds))

\* ------------------------------------------------------------------------
\* /api/user-notes, /api/user-notes/{id}
\* ------------------------------------------------------------------------
NoteContents == {"[]", "[text]"}
NoteBodies == [title : {"note"}, content : NoteContents]

\* prisma.note.findFirst({ where: { id, userId } })
FindNote(id, user) == {n \in notes : n.id = id /\ n.userId = user}

\* GET /api/user-notes
GetNotes(s) ==
    /\ req' = [op |-> "GET /api/user-notes", user |-> s]
    /\ UNCHANGED <<dbVars, serverTz>>
    /\ IF s = NoSession THEN resp' = Response(401, NoData, 0)
       ELSE resp' = Response(200, {n \in notes : n.userId = s}, 1)

\* POST /api/user-notes
PostNote(s, body) ==
    /\ req' = [op |-> "POST /api/user-notes", user |-> s, body |-> body]
    /\ UNCHANGED <<tasks, completions, dailyNotes, nextTask, serverTz>>
    /\ IF s = NoSession THEN
           /\ resp' = Response(401, NoData, 0)
           /\ UNCHANGED <<notes, nextNote>>
       ELSE IF body \notin NoteBodies THEN
           /\ resp' = Response(400, NoData, 0)
           /\ UNCHANGED <<notes, nextNote>>
       ELSE
           /\ nextNote < MaxNotes
           /\ nextNote' = nextNote + 1
           /\ notes' = notes \cup {[id |-> nextNote + 1, userId |-> s,
                                    content |-> body.content]}
           /\ resp' = Response(200, [id |-> nextNote + 1], 2)

\* GET /api/user-notes/{id}
GetNote(s, id) ==
    /\ req' = [op |-> "GET /api/user-notes/{id}", user |-> s, id |-> id]
    /\ UNCHANGED <<dbVars, serverTz>>
    /\ IF s = NoSession THEN resp' = Response(401, NoData, 0)
       ELSE IF FindNote(id, s) = {} THEN resp' = Response(404, NoData, 1)
       ELSE resp' = Response(200, FindNote(id, s), 1)

\* PUT /api/user-notes/{id}; a body that is not JSON makes request.json()
\* throw before any query.
PutNote(s, id, body) ==
    /\ req' = [op |-> "PUT /api/user-notes/{id}", user |-> s, id |-> id, body |-> body]
    /\ UNCHANGED <<tasks, completions, dailyNotes, nextTask, nextNote, serverTz>>
    /\ IF s = NoSession THEN
           /\ resp' = Response(401, NoData, 0)
           /\ UNCHANGED notes
       ELSE IF body \notin NoteBodies THEN
           /\ resp' = Response(500, NoData, 0)
           /\ UNCHANGED notes
       ELSE IF FindNote(id, s) = {} THEN
           /\ resp' = Response(404, NoData, 1)
           /\ UNCHANGED notes
       ELSE
           /\ notes' = {IF n.id = id THEN [n EXCEPT !.content = body.content] ELSE n
                           : n \in notes}
           /\ resp' = Response(200, [id |-> id], 2)

\* DeleteNote with the session check left out.
DeleteNoteNoSessionCheck(s, id) ==
    /\ req' = [op |-> "DELETE /api/user-notes/{id}", user |-> s, id |-> id]
    /\ UNCHANGED <<tasks, completions, dailyNotes, nextTask, nextNote, serverTz>>
    /\ IF FindNote(id, s) = {} THEN
           /\ resp' = Response(404, NoData, 1)
           /\ UNCHANGED notes
       ELSE
           /\ notes' = {n \in notes : n.id # id}
           /\ resp' = Response(200, NoData, 2)

\* DELETE /api/user-notes/{id}
DeleteNote(s, id) ==
    /\ req' = [op |-> "DELETE /api/user-notes/{id}", user |-> s, id |-> id]
    /\ UNCHANGED <<tasks, completions, dailyNotes, nextTask, nextNote, serverTz>>
    /\ IF s = NoSession THEN
           /\ resp' = Response(401, NoData, 0)
           /\ UNCHANGED notes
       ELSE IF FindNote(id, s) = {} THEN
           /\ resp' = Response(404, NoData, 1)
           /\ UNCHANGED notes
       ELSE
           /\ notes' = {n \in notes : n.id # id}
           /\ resp' = Response(200, NoData, 2)

\* ------------------------------------------------------------------------
\* /api/notes (the daily to-do blob of a user and a day)
\* ------------------------------------------------------------------------
DailyContents == {"", "[ ] a"}
DailyBodies == [date : DateStrings, content : DailyContents]

\* new Date(formatDateForStorage(new Date(dateParam))) on the server
DailyNoteDate(dateStr) == NewDate(formatDateForStorage(NewDate(dateStr), serverTz))

\* prisma.dailyNote rows of the unique key userId_date
FindDailyNote(user, date) == {n \in dailyNotes : n.userId = user /\ n.date = date}

\* orderBy: { date: 'desc' }
RECURSIVE OrderByDateDesc(_)
OrderByDateDesc(rows) ==
    IF rows = {} THEN <<>>
    ELSE LET first == CHOOSE a \in rows : \A b \in rows : b.date <= a.date
         IN  <<first>> \o OrderByDateDesc(rows \ {first})

\* The query of GET /api/notes: ?date=, ?startDate=&endDate=, or neither.
DailyQueries == {[date |-> d] : d \in DateStrings} \cup {[range |-> r] : r \in DateRanges}
                   \cup {NoRange}

DailyWhere(user, q) ==
    {n \in dailyNotes :
        /\ n.userId = user
        /\ q # NoRange =>
              IF "date" \in DOMAIN q THEN n.date = DailyNoteDate(q.date)
              ELSE /\ DailyNoteDate(q.range[1]) <= n.date
                   /\ n.date <= DailyNoteDate(q.range[2])}

\* GET /api/notes
GetDailyNotes(s, q) ==
    /\ req' = [op |-> "GET /api/notes", user |-> s, query |-> q]
    /\ UNCHANGED <<dbVars, serverTz>>
    /\ IF s = NoSession THEN resp' = Response(401, NoData, 0)
       ELSE resp' = Response(200, OrderByDateDesc(DailyWhere(s, q)), 1)

\* An upsert that always creates a row.
UpsertAlwaysCreates(rows, user, date, content) ==
    rows \cup {[userId |-> user, date |-> date, content |-> content]}

\* prisma.dailyNote.upsert({ where: { userId_date }, update, create })
UpsertDailyNote(rows, user, date, content) ==
    {n \in rows : ~(n.userId = user /\ n.date = date)}
        \cup {[userId |-> user, date |-> date, content |-> content]}

\* content || ''
ContentOrEmpty(body) == IF "content" \in DOMAIN body THEN body.content ELSE ""

\* POST /api/notes
PostDailyNote(s, body) ==
    /\ req' = [op |-> "POST /api/notes", user |-> s, body |-> body]
    /\ UNCHANGED <<tasks, completions, notes, nextTask, nextNote, serverTz>>
    /\ IF s = NoSession THEN
           /\ resp' = Response(401, NoData, 0)
           /\ UNCHANGED dailyNotes
       ELSE IF "date" \notin DOMAIN body THEN
           /\ resp' = Response(400, NoData, 0)
           /\ UNCHANGED dailyNotes
       ELSE
           /\ dailyNotes' = UpsertDailyNote(dailyNotes, s, DailyNoteDate(body.date),
                                            ContentOrEmpty(body))
           /\ resp' = Response(200, [date |-> toISOString(DailyNoteDate(body.date)),
                                     content |-> ContentOrEmpty(body)], 1)

\* DELETE /api/notes?date=; prisma.dailyNote.delete throws when no row has
\* the key, and the handler's catch answers 500.
DeleteDailyNote(s, dateParam) ==
    /\ req' = [op |-> "DELETE /api/notes", user |-> s, date |-> dateParam]
    /\ UNCHANGED <<tasks, completions, notes, nextTask, nextNote, serverTz>>
    /\ IF s = NoSession THEN
           /\ resp' = Response(401, NoData, 0)
           /\ UNCHANGED dailyNotes
       ELSE IF dateParam = NoRange THEN
           /\ resp' = Response(400, NoData, 0)
           /\ UNCHANGED dailyNotes
       ELSE IF FindDailyNote(s, DailyNoteDate(dateParam)) = {} THEN
           /\ resp' = Response(500, NoData, 1)
           /\ UNCHANGED dailyNotes
       ELSE
           /\ dailyNotes' = dailyNotes \ FindDailyNote(s, DailyNoteDate(dateParam))
           /\ resp' = Response(200, NoData, 1)

\* ------------------------------------------------------------------------
\* The API served one request at a time
\* ------------------------------------------------------------------------
NoRequest == [op |-> "none", user |-> NoSession]
NoCall == <<>>
NoGrid == <<>>

\* No component of the later sections is mounted.
WidgetsClosed == autosave = NoCall /\ todo = NoCall /\ habit = NoCall /\ tab = NoCall

\* A slot with no request running; status is the answer of its last one.
Slots == 1..MaxInFlight
Idle(status) == [pc |-> "idle", status |-> status]

Init ==
    /\ tasks = {}
    /\ completions = {}
    /\ notes = {}
    /\ dailyNotes = {}
    /\ nextTask = 0
    /\ nextNote = 0
    /\ serverTz \in ServerOffsets
    /\ req = NoRequest
    /\ resp = Response(0, NoData, 0)
    /\ inflight = [p \in Slots |-> Idle(0)]
    /\ clientTz = 0
    /\ grid = NoGrid
    /\ fmt = NoCall
    /\ codec = NoCall
    /\ cols = NoCall
    /\ editor = NoCall
    /\ WidgetsClosed

\* Requests about the first day only.
FirstDayStrings == {DateOnly(FirstDay), IsoNoon(FirstDay)}
FirstDayBodies == {b \in ToggleBodies : b.date \in FirstDayStrings}
FirstDayRange == <<DateOnly(FirstDay), IsoNoon(FirstDay)>>

\* The routes of tasks, completions and free-form notes, signed-in callers.
Next ==
    /\ \/ \E s \in Users, b \in FirstDayBodies \cup {Malformed} : PostCompletion(s, b)
       \/ \E s \in Users, r \in {FirstDayRange, NoRange} : GetCompletions(s, r)
       \/ \E s \in Users, r \in {FirstDayRange, NoRange} : GetTasks(s, r)
       \/ \E s \in Users, b \in CreateBodies \cup {Malformed} : PostTask(s, b)
       \/ \E s \in Users, id \in TaskIds : GetTask(s, id)
       \/ \E s \in Users, id \in TaskIds, b \in PatchBodies \cup {Malformed} : PatchTask(s, id, b)
       \/ \E s \in Users, id \in TaskIds : DeleteTask(s, id)
       \/ \E s \in Users, l \in ReorderLists \cup {<<>>} : PutReorder(s, l)
       \/ \E s \in Users : GetNotes(s)
       \/ \E s \in Users, b \in NoteBodies \cup {Malformed} : PostNote(s, b)
       \/ \E s \in Users, id \in NoteIds : GetNote(s, id)
       \/ \E s \in Users, id \in NoteIds, b \in NoteBodies \cup {Malformed} : PutNote(s, id, b)
       \/ \E s \in Users, id \in NoteIds : DeleteNote(s, id)
    /\ UNCHANGED <<raceVars, clientVars>>

Spec == Init /\ [][Next]_vars

\* Every route called without a session, against rows signed-in callers made.
NextAuth ==
    /\ \/ \E s \in Users, b \in CreateBodies : PostTask(s, b)
       \/ \E s \in Users, b \in NoteBodies : PostNote(s, b)
       \/ \E s \in Sessions, b \in FirstDayBodies : PostCompletion(s, b)
       \/ \E s \in Sessions, b \in {x \in DailyBodies : x.date \in FirstDayStrings} :
             PostDailyNote(s, b)
       \/ \E r \in {FirstDayRange, NoRange} : GetCompletions(NoSession, r)
       \/ \E r \in {FirstDayRange, NoRange} : GetTasks(NoSession, r)
       \/ \E b \in CreateBodies \cup {Malformed} : PostTask(NoSession, b)
       \/ \E id \in TaskIds : GetTask(NoSession, id)
       \/ \E id \in TaskIds, b \in PatchBodies \cup {Malformed} : PatchTask(NoSession, id, b)
       \/ \E id \in TaskIds : DeleteTask(NoSession, id)
       \/ \E l \in ReorderLists \cup {<<>>} : PutReorder(NoSession, l)
       \/ GetNotes(NoSession)
       \/ \E b \in NoteBodies \cup {Malformed} : PostNote(NoSession, b)
       \/ \E id \in NoteIds : GetNote(NoSession, id)
       \/ \E id \in NoteIds, b \in NoteBodies \cup {Malformed} : PutNote(NoSession, id, b)
       \/ \E id \in NoteIds : DeleteNote(NoSession, id)
       \/ \E q \in {[date |-> DateOnly(FirstDay)], NoRange} : GetDailyNotes(NoSession, q)
       \/ \E d \in FirstDayStrings \cup {NoRange} : DeleteDailyNote(NoSession, d)
    /\ UNCHANGED <<raceVars, clientVars>>

SpecAuth == Init /\ [][NextAuth]_vars

\* Tasks and their completions over all the days, signed-in callers.
NextToggle ==
    /\ \/ \E s \in Users, b \in CreateBodies : PostTask(s, b)
       \/ \E s \in Users, b \in ToggleBodies : PostCompletion(s, b)
       \/ \E s \in Users, r \in DateRanges : GetCompletions(s, r)
       \/ \E s \in Users, id \in TaskIds : DeleteTask(s, id)
    /\ UNCHANGED <<raceVars, clientVars>>

SpecToggle == Init /\ [][NextToggle]_vars

\* Tasks and their order, signed-in callers.
NextOrder ==
    /\ \/ \E s \in Users, b \in CreateBodies : PostTask(s, b)
       \/ \E s \in Users, id \in TaskIds, b \in PatchBodies : PatchTask(s, id, b)
       \/ \E s \in Users, id \in TaskIds : DeleteTask(s, id)
       \/ \E s \in Users, l \in ReorderLists : PutReorder(s, l)
       \/ \E s \in Users : GetTasks(s, NoRange)
    /\ UNCHANGED <<raceVars, clientVars>>

SpecOrder == Init /\ [][NextOrder]_vars

\* ------------------------------------------------------------------------
\* POST /api/completions, one await at a time, requests side by side
\* ------------------------------------------------------------------------
\* The row ids the other running requests remember.
HeldIds(p) ==
    UNION {{e.id : e \in inflight[q].existing} :
              q \in {x \in Slots \ {p} : inflight[x].pc = "write"}}

\* The handler up to the answer of prisma.task.findFirst.
RaceFindTask(p, s, body) ==
    /\ inflight[p].pc = "idle"
    /\ inflight' = [inflight EXCEPT ![p] =
          IF FindTask(body.taskId, s) = {} THEN Idle(404)
          ELSE [pc |-> "findUnique", status |-> 0, user |-> s, body |-> body,
                existing |-> {}]]
    /\ UNCHANGED <<dbVars, serverTz, req, resp, clientVars>>

\* The answer of prisma.taskCompletion.findUnique.
RaceFindCompletion(p) ==
    /\ inflight[p].pc = "findUnique"
    /\ inflight' = [inflight EXCEPT ![p] =
          [inflight[p] EXCEPT
              !.pc = "write",
              !.existing = FindCompletion(completions, inflight[p].body.taskId,
                               parseToUTCNoon(inflight[p].body.date, serverTz))]]
    /\ UNCHANGED <<dbVars, serverTz, req, resp, clientVars>>

\* The create, update or delete and the response: 200, or 500 from the catch
\* when Prisma throws.  Nothing is retried.
RaceWrite(p) ==
    LET r == inflight[p]
        w == ToggleWrite(completions, tasks, HeldIds(p), r.existing, r.body.taskId,
                         parseToUTCNoon(r.body.date, serverTz), r.body.completed)
    IN  /\ r.pc = "write"
        /\ completions' = w.comps
        /\ inflight' = [inflight EXCEPT ![p] = Idle(IF w.ok THEN 200 ELSE 500)]
        /\ UNCHANGED <<tasks, notes, dailyNotes, nextTask, nextNote, serverTz, req, resp,
                       clientVars>>

NextRace ==
    \/ \E s \in Users, b \in CreateBodies : PostTask(s, b) /\ UNCHANGED <<raceVars, clientVars>>
    \/ \E s \in Users, id \in TaskIds : DeleteTask(s, id) /\ UNCHANGED <<raceVars, clientVars>>
    \/ \E p \in Slots, s \in Users, b \in FirstDayBodies : RaceFindTask(p, s, b)
    \/ \E p \in Slots : RaceFindCompletion(p)
    \/ \E p \in Slots : RaceWrite(p)

SpecRace == Init /\ [][NextRace]_vars

\* Requests that all ask for completed = true, of tasks that stay.
NextRaceCreate ==
    \/ \E s \in Users, b \in CreateBodies : PostTask(s, b) /\ UNCHANGED <<raceVars, clientVars>>
    \/ \E p \in Slots, s \in Users, b \in {x \in FirstDayBodies : x.completed} :
          RaceFindTask(p, s, b)
    \/ \E p \in Slots : RaceFindCompletion(p)
    \/ \E p \in Slots : RaceWrite(p)

SpecRaceCreate == Init /\ [][NextRaceCreate]_vars

\* ------------------------------------------------------------------------
\* The browser: date formatting and the habit grid
\* ------------------------------------------------------------------------
\* The zones a browser can run in, whole hours from UTC-12 to UTC+14.
ClientOffsets == -12 .. 14

\* The state after construction with the browser in any of these zones.
InitClient ==
    /\ tasks = {} /\ completions = {} /\ notes = {} /\ dailyNotes = {}
    /\ nextTask = 0 /\ nextNote = 0
    /\ serverTz \in ServerOffsets
    /\ req = NoRequest
    /\ resp = Response(0, NoData, 0)
    /\ inflight = [p \in Slots |-> Idle(0)]
    /\ clientTz \in ClientOffsets
    /\ grid = NoGrid
    /\ fmt = NoCall
    /\ codec = NoCall
    /\ cols = NoCall
    /\ editor = NoCall
    /\ WidgetsClosed

\* The instants handed to formatDateForStorage: every hour from the day
\* before the first day to the day after the last.
Instants == (FirstDay - 1) * 24 .. (FirstDay + MaxDays + 1) * 24 - 1

\* A call formatDateForStorage(d) in the browser.
FormatDate(d) ==
    /\ fmt' = [in |-> d, out |-> formatDateForStorage(d, clientTz)]
    /\ UNCHANGED <<dbVars, serverTz, req, resp, raceVars, clientTz, grid, codec, uiVars>>

NextDate == \E d \in Instants : FormatDate(d)

SpecDate == InitClient /\ [][NextDate]_vars

\* new Date() when the grid is mounted: noon UTC of the second day.
Now == (FirstDay + 1) * 24 + 12

\* generateDateColumns(centerDate, daysToShow) in a runtime at offset off:
\* the local midnights from halfDays before the centre to halfDays - 1
\* after it, each with its local yyyy-MM-dd string.
generateDateColumns(centerDate, daysToShow, off) ==
    LET halfDays == daysToShow \div 2
        first == FloorDiv(centerDate - halfDays * 24 + off, 24)
        last == FloorDiv(centerDate + (halfDays - 1) * 24 + off, 24)
    IN  [i \in 1 .. (last - first + 1) |->
            LET date == (first + i - 1) * 24 - off
            IN  [date |-> date, dateString |-> FormatYMD(date, off)]]

Columns(off) == SeqRange(generateDateColumns(Now, MaxDays, off))

\* The cells the grid shows checked for the tasks it holds.
CheckedCells(gridTasks, off) ==
    {<<t.id, col.dateString>> : t \in gridTasks, col \in Columns(off)} \cap
    UNION {{<<t.id, col.dateString>> :
               col \in {k \in Columns(off) :
                           isTaskCompletedOnDate(t.completions, k.date, off)}} :
              t \in gridTasks}

\* The dashboard page loads the user's active tasks with their completions
\* (the 30 days either side of today hold every column) and mounts the grid.
GridLoad(s) ==
    LET rows == SeqRange(ListTasks(s, NoRange))
        loaded == {[id |-> t.id,
                    completions |-> {[date |-> toISOString(c.date),
                                      completed |-> c.completed] : c \in t.completions}]
                      : t \in rows}
        again == grid # NoGrid /\ grid.stage = "toggled" /\ grid.user = s
    IN  /\ grid' = [user |-> s, tasks |-> loaded,
                    checked |-> CheckedCells(loaded, clientTz),
                    stage |-> IF again THEN "reloaded" ELSE "loaded",
                    last |-> IF again THEN grid.last ELSE NoCall]
        /\ UNCHANGED <<dbVars, serverTz, req, resp, raceVars, clientTz, fmt, codec, uiVars>>

\* handleToggleCompletion's update of the grid's tasks after a 200.
LocalCompletions(comps, date, completed, off) ==
    LET hit == {c \in comps : FormatYMD(NewDate(c.date), off) = date}
    IN  IF completed
        THEN IF hit # {}
             THEN {IF c \in hit THEN [c EXCEPT !.completed = TRUE] ELSE c : c \in comps}
             ELSE comps \cup {[date |-> toISOString(NewDate(date)), completed |-> TRUE]}
        ELSE comps \ hit

\* A click on the checkbox of a task in a column: HabitCheckbox.handleToggle
\* flips the box and calls handleToggleCompletion, which posts the toggle;
\* the box is flipped back when the request fails.
GridToggle(taskId, col) ==
    /\ grid # NoGrid
    /\ \E t \in grid.tasks : t.id = taskId
    /\ LET date == col.dateString
           newValue == <<taskId, date>> \notin grid.checked
           body == [taskId |-> taskId,
                    date |-> formatDateForStorage(NewDate(date), clientTz),
                    completed |-> newValue]
           click == [taskId |-> taskId, date |-> date, completed |-> newValue,
                     before |-> {d \in {c.dateString : c \in Columns(clientTz)} :
                                    <<taskId, d>> \in grid.checked}]
       IN  /\ PostCompletion(grid.user, body)
           /\ grid' = IF resp'.status = 200
                      THEN [grid EXCEPT
                              !.tasks = {IF t.id = taskId
                                         THEN [t EXCEPT !.completions =
                                                  LocalCompletions(@, date, newValue, clientTz)]
                                         ELSE t : t \in grid.tasks},
                              !.checked = IF newValue THEN @ \cup {<<taskId, date>>}
                                          ELSE @ \ {<<taskId, date>>},
                              !.stage = "toggled", !.last = click]
                      ELSE [grid EXCEPT !.stage = "toggled", !.last = click]
    /\ UNCHANGED <<raceVars, clientTz, fmt, codec, uiVars>>

NextGrid ==
    \/ \E s \in Users, b \in CreateBodies : PostTask(s, b) /\ UNCHANGED <<raceVars, clientVars>>
    \/ \E s \in Users : GridLoad(s)
    \/ \E id \in TaskIds, col \in Columns(clientTz) : GridToggle(id, col)

SpecGrid == InitClient /\ [][NextGrid]_vars

\* ------------------------------------------------------------------------
\* The daily to-do list and its text format
\* ------------------------------------------------------------------------
\* A string is a sequence of pieces: single characters, and a whole
\* "@remind:HH:mm" tag as one piece.
ReminderTimes == {"09:30"}
NoReminder == ""
ReminderTag(time) == "@remind:" \o time
IsReminderTag(ch) == \E t \in ReminderTimes : ch = ReminderTag(t)
TagTime(ch) == CHOOSE t \in ReminderTimes : ch = ReminderTag(t)
Alphabet == {"a", " ", "\n"} \cup {ReminderTag(t) : t \in ReminderTimes}
IsSpace(ch) == ch \in {" ", "\n"}

RECURSIVE Split(_)
\* String.prototype.split('\n')
Split(str) ==
    IF \A i \in 1..Len(str) : str[i] # "\n" THEN <<str>>
    ELSE LET i == CHOOSE k \in 1..Len(str) :
                      str[k] = "\n" /\ \A j \in 1..(k - 1) : str[j] # "\n"
         IN  <<SubSeq(str, 1, i - 1)>> \o Split(SubSeq(str, i + 1, Len(str)))

RECURSIVE Join(_)
\* Array.prototype.join('\n')
Join(strs) ==
    IF strs = <<>> THEN <<>>
    ELSE IF Len(strs) = 1 THEN strs[1]
    ELSE strs[1] \o <<"\n">> \o Join(Tail(strs))

\* String.prototype.trim() leaves nothing.
TrimIsEmpty(str) == \A i \in 1..Len(str) : IsSpace(str[i])

RECURSIVE DropLeadingSpace(_)
DropLeadingSpace(str) ==
    IF str # <<>> /\ IsSpace(Head(str)) THEN DropLeadingSpace(Tail(str)) ELSE str

RECURSIVE DropTrailingSpace(_)
DropTrailingSpace(str) ==
    IF str # <<>> /\ IsSpace(str[Len(str)])
    THEN DropTrailingSpace(SubSeq(str, 1, Len(str) - 1)) ELSE str

\* line.match(/^\[([ x])\]\s*(.*)$/)
ChecklistMatch(line) ==
    /\ Len(line) >= 3
    /\ line[1] = "[" /\ line[2] \in {" ", "x"} /\ line[3] = "]"

\* The item a checklist line starts: the text after the box and its
\* white space, with a trailing reminder tag and the white space before it
\* taken off.
ChecklistItem(line) ==
    LET text == DropLeadingSpace(SubSeq(line, 4, Len(line)))
        tagged == text # <<>> /\ IsReminderTag(text[Len(text)])
    IN  [text |-> IF tagged THEN DropTrailingSpace(SubSeq(text, 1, Len(text) - 1))
                  ELSE text,
         completed |-> line[2] = "x",
         reminderTime |-> IF tagged THEN TagTime(text[Len(text)]) ELSE NoReminder]

RECURSIVE ParseLines(_, _, _)
\* The loop of parseContent over the lines left; current is <<>> or holds
\* the item being read.
ParseLines(lines, items, current) ==
    IF lines = <<>> THEN items \o current
    ELSE LET line == Head(lines)
             rest == Tail(lines)
         IN  IF ChecklistMatch(line)
             THEN ParseLines(rest, items \o current, <<ChecklistItem(line)>>)
             ELSE IF current # <<>> /\ Len(line) >= 2 /\ line[1] = " " /\ line[2] = " "
             THEN ParseLines(rest, items,
                      <<[current[1] EXCEPT
                            !.text = @ \o <<"\n">> \o SubSeq(line, 3, Len(line))]>>)
             ELSE IF current # <<>> /\ TrimIsEmpty(line)
             THEN ParseLines(rest, items, <<[current[1] EXCEPT !.text = @ \o <<"\n">>]>>)
             ELSE IF ~TrimIsEmpty(line)
             THEN ParseLines(rest, items \o current,
                      <<[text |-> line, completed |-> FALSE, reminderTime |-> NoReminder]>>)
             ELSE ParseLines(rest, items, current)

parseContent(content) ==
    IF TrimIsEmpty(content) THEN <<>> ELSE ParseLines(Split(content), <<>>, <<>>)

\* One item of serializeItems: box, first line, reminder tag, then the
\* other lines with two spaces in front.
SerializeItem(item) ==
    LET checkbox == <<"[", IF item.completed THEN "x" ELSE " ", "]", " ">>
        lines == Split(item.text)
        reminderTag == IF item.reminderTime # NoReminder
                       THEN <<" ", ReminderTag(item.reminderTime)>> ELSE <<>>
    IN  checkbox \o lines[1] \o reminderTag \o
        (IF Len(lines) > 1
         THEN <<"\n">> \o Join([i \in 1..(Len(lines) - 1) |-> <<" ", " ">> \o lines[i + 1]])
         ELSE <<>>)

serializeItems(items) == Join([i \in 1..Len(items) |-> SerializeItem(items[i])])

\* The texts addTask and saveEdit put into an item: trimmed and not empty.
Texts ==
    {t \in UNION {[1..n -> Alphabet] : n \in 1..MaxText} :
        ~IsSpace(t[1]) /\ ~IsSpace(t[Len(t)])}

TodoItems ==
    [text : Texts, completed : BOOLEAN, reminderTime : ReminderTimes \cup {NoReminder}]

TodoLists == UNION {[1..n -> TodoItems] : n \in 0..MaxItems}

\* The component holds any such list.
InitCodec ==
    /\ tasks = {} /\ completions = {} /\ notes = {} /\ dailyNotes = {}
    /\ nextTask = 0 /\ nextNote = 0
    /\ serverTz \in ServerOffsets
    /\ req = NoRequest
    /\ resp = Response(0, NoData, 0)
    /\ inflight = [p \in Slots |-> Idle(0)]
    /\ clientTz = 0
    /\ grid = NoGrid
    /\ fmt = NoCall
    /\ codec \in {[items |-> l, saved |-> FALSE, content |-> <<>>,
                   loaded |-> FALSE, parsed |-> <<>>] : l \in TodoLists}
    /\ cols = NoCall
    /\ editor = NoCall
    /\ WidgetsClosed

\* saveNote stores serializeItems(items) as the content of the day's note.
saveNote ==
    /\ ~codec.saved
    /\ codec' = [codec EXCEPT !.saved = TRUE, !.content = serializeItems(codec.items)]
    /\ UNCHANGED <<dbVars, serverTz, req, resp, raceVars, clientTz, grid, fmt, uiVars>>

\* loadNote reads the stored content back through parseContent.
loadNote ==
    /\ codec.saved /\ ~codec.loaded
    /\ codec' = [codec EXCEPT !.loaded = TRUE, !.parsed = parseContent(codec.content)]
    /\ UNCHANGED <<dbVars, serverTz, req, resp, raceVars, clientTz, grid, fmt, uiVars>>

NextCodec == saveNote \/ loadNote

SpecCodec == InitCodec /\ [][NextCodec]_vars

\* ------------------------------------------------------------------------
\* Request bodies that the schemas accept and reject
\* ------------------------------------------------------------------------
\* A field the body does not carry.
Absent == <<"undefined">>

NameInputs == {Absent, Letters(0), Letters(1), Letters(100), Letters(101)}
DescriptionInputs == {Absent, Letters(0), Letters(500), Letters(501)}
ColorInputs ==
    {Absent,
     <<"#", "0", "e", "a", "5", "e", "9">>,
     <<"#", "0", "E", "A", "5", "F", "f">>,
     <<"r", "e", "d">>,
     <<"#", "0", "e", "a", "5", "e">>,
     <<"#", "0", "e", "a", "5", "e", "9", "9">>,
     <<"#", "0", "e", "a", "5", "e", "g">>,
     <<"0", "e", "a", "5", "e", "9", "#">>}

\* The JSON object with the fields that are present.
TaskBody(name, description, color) ==
    [k \in {f \in {"name", "description", "color"} :
               \/ f = "name" /\ name # Absent
               \/ f = "description" /\ description # Absent
               \/ f = "color" /\ color # Absent} |->
        IF k = "name" THEN name ELSE IF k = "description" THEN description ELSE color]

TaskInputs ==
    {TaskBody(n, d, c) : n \in NameInputs, d \in DescriptionInputs, c \in ColorInputs}

NextCreate ==
    /\ \/ \E s \in Users, b \in TaskInputs : PostTask(s, b)
       \/ \E s \in Users : GetTasks(s, NoRange)
    /\ UNCHANGED <<raceVars, clientVars>>

SpecCreate == Init /\ [][NextCreate]_vars

\* The bodies the edit modal and other clients send to PATCH.
PatchInputs ==
    {[isCompleted |-> TRUE], [isCompleted |-> FALSE],
     [isActive |-> FALSE, isCompleted |-> TRUE], [isActive |-> TRUE],
     [name |-> Letters(3)], [name |-> Letters(0)]}

NextPatch ==
    /\ \/ \E s \in Users, b \in CreateBodies : PostTask(s, b)
       \/ \E s \in Users, id \in TaskIds, b \in PatchInputs : PatchTask(s, id, b)
       \/ \E s \in Users, id \in TaskIds : GetTask(s, id)
    /\ UNCHANGED <<raceVars, clientVars>>

SpecPatch == Init /\ [][NextPatch]_vars

\* ------------------------------------------------------------------------
\* generateDateColumns over every width
\* ------------------------------------------------------------------------
\* What a call can return.  With daysToShow = 1 the interval handed to
\* eachDayOfInterval ends the day before it starts: date-fns 2 throws a
\* RangeError, date-fns 3 walks the interval backwards.
GenerateOutcomes(centerDate, daysToShow, off) ==
    IF daysToShow \div 2 >= 1
    THEN {[threw |-> FALSE, columns |-> generateDateColumns(centerDate, daysToShow, off)]}
    ELSE LET day == FloorDiv(centerDate + off, 24)
             col(d) == [date |-> d * 24 - off, dateString |-> FormatYMD(d * 24 - off, off)]
         IN  {[threw |-> TRUE, columns |-> <<>>],
              [threw |-> FALSE, columns |-> <<col(day), col(day - 1)>>]}

\* The grid asks for the columns around a date, once.
GenerateColumns(centerDate, daysToShow) ==
    /\ cols = NoCall
    /\ \E out \in GenerateOutcomes(centerDate, daysToShow, clientTz) :
          cols' = [center |-> centerDate, days |-> daysToShow, out |-> out]
    /\ UNCHANGED <<dbVars, serverTz, req, resp, raceVars, clientTz, grid, fmt, codec, editor,
                   widgetVars>>

NextColumns == \E c \in Instants, n \in 1..MaxShow : GenerateColumns(c, n)

SpecColumns == InitClient /\ [][NextColumns]_vars

\* ------------------------------------------------------------------------
\* The free-form note editor and its block list
\* ------------------------------------------------------------------------
\* A block is [id, type, content, completed]; content is a sequence of
\* characters, completed matters for a todo only.
BlockTypes == {"text", "todo", "image"}
TypedContents == {<<>>, <<"a">>, <<" ">>}
ImageContent == <<"i">>

\* blockId(): an id no block of the list has.
FreshBlockId(blocksList) ==
    CHOOSE n \in 1..(Len(blocksList) + 1) :
        /\ \A i \in 1..Len(blocksList) : blocksList[i].id # n
        /\ \A m \in 1..(n - 1) : \E i \in 1..Len(blocksList) : blocksList[i].id = m

EmptyTextBlock(blocksList) ==
    [id |-> FreshBlockId(blocksList), type |-> "text", content |-> <<>>, completed |-> FALSE]

\* The content of two text blocks merged into the first.
MergedContent(prev, block) ==
    IF prev # <<>>
    THEN IF block # <<>> THEN prev \o <<"\n">> \o block ELSE prev
    ELSE block

RECURSIVE MergeLoop(_, _)
\* The for loop of mergeAdjacentTextBlocks: merged so far, blocks left.
MergeLoop(merged, rest) ==
    IF rest = <<>> THEN merged
    ELSE LET block == Head(rest)
             n == Len(merged)
         IN  IF n > 0 /\ merged[n].type = "text" /\ block.type = "text"
             THEN MergeLoop([merged EXCEPT ![n].content = MergedContent(@, block.content)],
                            Tail(rest))
             ELSE MergeLoop(Append(merged, block), Tail(rest))

\* A merge that keeps every block as it is.
NoMerge(blocksList) == blocksList

mergeAdjacentTextBlocks(blocksList) == MergeLoop(<<>>, blocksList)

\* blocks.filter((b) => b.id !== id)
WithoutBlock(blocksList, id) == SelectSeq(blocksList, LAMBDA b : b.id # id)

\* A list that may be left empty.
KeepEmpty(blocksList) == blocksList

\* if (newBlocks.length === 0) newBlocks.push(empty text block)
AtLeastOneBlock(blocksList) ==
    IF Len(blocksList) = 0 THEN <<EmptyTextBlock(blocksList)>> ELSE blocksList

\* The block list deleteBlock and the Enter and Backspace branches of
\* handleTodoKeyDown hand to updateBlocks.
AfterDelete(blocksList, id) ==
    AtLeastOneBlock(mergeAdjacentTextBlocks(WithoutBlock(blocksList, id)))

\* newBlocks.splice(index + 1, 0, newBlock), index counted from 0.
InsertAfter(blocksList, index, block) ==
    SubSeq(blocksList, 1, index + 1) \o <<block>> \o
    SubSeq(blocksList, index + 2, Len(blocksList))

\* The block at a position of a stored list.
StoredBlocksAt(i) ==
    {[id |-> i, type |-> "text", content |-> c, completed |-> FALSE] : c \in {<<>>, <<"a">>}}
    \cup {[id |-> i, type |-> "todo", content |-> c, completed |-> d]
             : c \in {<<>>, <<"a">>}, d \in BOOLEAN}
    \cup {[id |-> i, type |-> "image", content |-> ImageContent, completed |-> FALSE]}

\* note.content: text that is no JSON, or the JSON of a list of blocks.
StoredContents ==
    {[json |-> FALSE, value |-> <<>>]} \cup
    {[json |-> TRUE, value |-> l] :
        l \in UNION {{f \in [1..n -> UNION {StoredBlocksAt(i) : i \in 1..n}] :
                         \A i \in 1..n : f[i].id = i} : n \in 0..MaxBlocks}}

DeleteOps == {"deleteBlock", "Enter", "Backspace"}

editorFrame == <<dbVars, serverTz, req, resp, raceVars, clientTz, grid, fmt, codec, cols,
                 widgetVars>>

\* The editor is opened on a note: the initial value of blocks.
OpenEditor(content) ==
    /\ editor = NoCall
    /\ editor' = [blocks |-> IF ~content.json \/ Len(content.value) = 0
                             THEN <<EmptyTextBlock(<<>>)>> ELSE content.value,
                  last |-> [op |-> "open", count |-> 0],
                  pending |-> NoCall]
    /\ UNCHANGED editorFrame

\* Block ids are unique random strings that only tell the blocks of a list
\* apart: the model names the blocks of a list 1, 2, ... by position.
Renumber(blocksList) == [i \in 1..Len(blocksList) |-> [blocksList[i] EXCEPT !.id = i]]

\* updateBlocks(newBlocks) after the operation op.
UpdateBlocks(newBlocks, op) ==
    /\ editor' = [editor EXCEPT !.blocks = Renumber(newBlocks),
                                !.last = [op |-> op, count |-> Len(editor.blocks)]]
    /\ UNCHANGED editorFrame

\* insertTodoAfter(index), index counted from 0.
insertTodoAfter(index) ==
    /\ Len(editor.blocks) < MaxBlocks
    /\ UpdateBlocks(InsertAfter(editor.blocks, index,
                        [id |-> FreshBlockId(editor.blocks), type |-> "todo",
                         content |-> <<>>, completed |-> FALSE]), "insertTodo")

addTodoAtEnd == editor # NoCall /\ insertTodoAfter(Len(editor.blocks) - 1)

\* addImageAtEnd up to the file dialog: the onload callback keeps the block
\* list of this moment.
addImageAtEnd ==
    /\ editor # NoCall
    /\ editor.pending = NoCall
    /\ editor' = [editor EXCEPT !.pending = [index |-> Len(editor.blocks) - 1,
                                             blocks |-> editor.blocks]]
    /\ UNCHANGED editorFrame

\* reader.onload: the image goes into the list the callback kept.
ImageLoaded ==
    /\ editor # NoCall
    /\ editor.pending # NoCall
    /\ Len(editor.pending.blocks) < MaxBlocks
    /\ editor' = [blocks |-> Renumber(InsertAfter(editor.pending.blocks, editor.pending.index,
                                 [id |-> FreshBlockId(editor.pending.blocks), type |-> "image",
                                  content |-> ImageContent, completed |-> FALSE])),
                  last |-> [op |-> "insertImage", count |-> Len(editor.blocks)],
                  pending |-> NoCall]
    /\ UNCHANGED editorFrame

\* Typing into the text area or the input of block i.
updateBlockContent(i, content) ==
    /\ editor # NoCall
    /\ i \in 1..Len(editor.blocks)
    /\ editor.blocks[i].type \in {"text", "todo"}
    /\ UpdateBlocks([editor.blocks EXCEPT ![i].content = content], "edit")

toggleTodo(i) ==
    /\ editor # NoCall
    /\ i \in 1..Len(editor.blocks)
    /\ editor.blocks[i].type = "todo"
    /\ UpdateBlocks([editor.blocks EXCEPT ![i].completed = ~@], "toggle")

\* The delete button of a checklist item or an image.
deleteBlock(i) ==
    /\ editor # NoCall
    /\ i \in 1..Len(editor.blocks)
    /\ editor.blocks[i].type \in {"todo", "image"}
    /\ UpdateBlocks(AfterDelete(editor.blocks, editor.blocks[i].id), "deleteBlock")

\* handleTodoKeyDown with Enter in checklist item i.
TodoEnter(i) ==
    /\ editor # NoCall
    /\ i \in 1..Len(editor.blocks)
    /\ editor.blocks[i].type = "todo"
    /\ IF TrimIsEmpty(editor.blocks[i].content)
       THEN UpdateBlocks(AfterDelete(editor.blocks, editor.blocks[i].id), "Enter")
       ELSE insertTodoAfter(i - 1)

\* handleTodoKeyDown with Backspace in the empty checklist item i.
TodoBackspace(i) ==
    /\ editor # NoCall
    /\ i \in 1..Len(editor.blocks)
    /\ editor.blocks[i].type = "todo"
    /\ editor.blocks[i].content = <<>>
    /\ UpdateBlocks(AfterDelete(editor.blocks, editor.blocks[i].id), "Backspace")

NextEditor ==
    \/ \E c \in StoredContents : OpenEditor(c)
    \/ addTodoAtEnd
    \/ addImageAtEnd
    \/ ImageLoaded
    \/ \E i \in 1..MaxBlocks, c \in TypedContents : updateBlockContent(i, c)
    \/ \E i \in 1..MaxBlocks : toggleTodo(i)
    \/ \E i \in 1..MaxBlocks : deleteBlock(i)
    \/ \E i \in 1..MaxBlocks : TodoEnter(i)
    \/ \E i \in 1..MaxBlocks : TodoBackspace(i)

SpecEditor == Init /\ [][NextEditor]_vars

\* ------------------------------------------------------------------------
\* Daily notes saved, listed and deleted
\* ------------------------------------------------------------------------
\* The strings a client can name a day with: the date alone, the noon-UTC
\* instant saveNote sends, and an instant late in that UTC day.
IsoLate(day) == [DateOnly(day) EXCEPT !.y = @] @@ [h |-> 23]
DayStrings(day) == {DateOnly(day), IsoNoon(day), IsoLate(day)}

DailyInputs ==
    {[date |-> d, content |-> c] : d \in UNION {DayStrings(x) : x \in Days},
                                   c \in DailyContents}
    \cup {[date |-> DateOnly(x)] : x \in Days}

NextDaily ==
    /\ \/ \E s \in Users, b \in DailyInputs : PostDailyNote(s, b)
       \/ \E s \in Users, q \in {[date |-> DateOnly(x)] : x \in Days} \cup {NoRange} :
             GetDailyNotes(s, q)
       \/ \E s \in Users, d \in {DateOnly(x) : x \in Days} \cup {NoRange} :
             DeleteDailyNote(s, d)
    /\ UNCHANGED <<raceVars, clientVars>>

SpecDaily == Init /\ [][NextDaily]_vars

\* ------------------------------------------------------------------------
\* Requests that fail validation
\* ------------------------------------------------------------------------
\* Whether the body or query of a request is one its handler's validation
\* turns down.
MalformedRequest(r) ==
    CASE r.op = "POST /api/tasks" -> ~CreateTaskSchema(r.body)
      [] r.op = "PATCH /api/tasks/{id}" -> ~UpdateTaskSchema(r.body)
      [] r.op = "PUT /api/tasks/reorder" -> r.taskIds \notin ReorderLists
      [] r.op = "POST /api/completions" -> ~ValidToggleBody(r.body)
      [] r.op = "GET /api/completions" -> r.range = NoRange
      [] r.op = "POST /api/notes" -> "date" \notin DOMAIN r.body
      [] r.op = "DELETE /api/notes" -> r.date = NoRange
      [] OTHER -> FALSE

NextValidate ==
    /\ \/ \E s \in Users, b \in CreateBodies \cup {x \in TaskInputs : ~CreateTaskSchema(x)} :
             PostTask(s, b)
       \/ \E s \in Users, id \in TaskIds, b \in {[name |-> Letters(0)], [name |-> Letters(3)]} :
             PatchTask(s, id, b)
       \/ \E s \in Users : PutReorder(s, <<>>)
       \/ \E s \in Users : PostCompletion(s, Malformed)
       \/ \E s \in Users : GetCompletions(s, NoRange)
       \/ \E s \in Users, b \in {[content |-> c] : c \in DailyContents} : PostDailyNote(s, b)
       \/ \E s \in Users : DeleteDailyNote(s, NoRange)
    /\ UNCHANGED <<raceVars, clientVars>>

SpecValidate == Init /\ [][NextValidate]_vars

\* ------------------------------------------------------------------------
\* PUT /api/tasks/reorder, one update at a time
\* ------------------------------------------------------------------------
\* The handler up to the answer of prisma.task.findMany, for a signed-in
\* caller and a body that passed reorderSchema.  before remembers the sort
\* orders the listed tasks had, for the properties to compare with.
ReorderFind(p, s, taskIds) ==
    /\ inflight[p].pc = "idle"
    /\ inflight' = [inflight EXCEPT ![p] =
          IF Cardinality(FindOwnedIn(taskIds, s)) # Len(taskIds) THEN Idle(404)
          ELSE [pc |-> "updates", status |-> 0, user |-> s, taskIds |-> taskIds,
                pending |-> DOMAIN taskIds,
                before |-> [id \in SeqRange(taskIds) |->
                              (CHOOSE t \in tasks : t.id = id).sortOrder]]]
    /\ UNCHANGED <<dbVars, serverTz, req, resp, clientVars>>

\* prisma.task.update({ where: { id }, data: { sortOrder: index } })
UpdateSortOrder(rows, id, index) ==
    {IF t.id = id THEN [t EXCEPT !.sortOrder = index] ELSE t : t \in rows}

\* The table after a failed update, had the updates run in a transaction
\* that is rolled back.
AfterRejectionRolledBack(rows, before) ==
    {IF t.id \in DOMAIN before THEN [t EXCEPT !.sortOrder = before[t.id]] ELSE t
        : t \in rows}

\* The table after one of the updates has thrown: Promise.all rejects, the
\* catch block answers, and nothing is undone.
AfterRejection(rows, before) == rows

\* One of the updates handed to Promise.all reaches the database; they can
\* arrive in any order.  An update of a row that is gone throws, and the
\* request's answer is 500 from then on; the other updates still run.
ReorderUpdate(p, i) ==
    LET r == inflight[p]
        id == r.taskIds[i]
        found == \E t \in tasks : t.id = id
    IN  /\ r.pc = "updates"
        /\ i \in r.pending
        /\ tasks' = IF found THEN UpdateSortOrder(tasks, id, i - 1)
                    ELSE AfterRejection(tasks, r.before)
        /\ inflight' = [inflight EXCEPT ![p] =
              [r EXCEPT !.pending = r.pending \ {i},
                        !.status = IF found THEN r.status ELSE 500]]
        /\ UNCHANGED <<completions, notes, dailyNotes, nextTask, nextNote, serverTz,
                       req, resp, clientVars>>

\* The response once every update has settled: 200, or 500 from the catch.
ReorderRespond(p) ==
    /\ inflight[p].pc = "updates"
    /\ inflight[p].pending = {}
    /\ inflight' = [inflight EXCEPT ![p] =
          Idle(IF inflight[p].status = 500 THEN 500 ELSE 200)]
    /\ UNCHANGED <<dbVars, serverTz, req, resp, clientVars>>

NextReorder ==
    \/ \E s \in Users, b \in CreateBodies : PostTask(s, b) /\ UNCHANGED <<raceVars, clientVars>>
    \/ \E s \in Users, id \in TaskIds : DeleteTask(s, id) /\ UNCHANGED <<raceVars, clientVars>>
    \/ \E p \in Slots, s \in Users, l \in ReorderLists : ReorderFind(p, s, l)
    \/ \E p \in Slots : \E i \in 1..MaxTasks : ReorderUpdate(p, i)
    \/ \E p \in Slots : ReorderRespond(p)

SpecReorder == Init /\ [][NextReorder]_vars

\* ------------------------------------------------------------------------
\* Autosave: the debounce timer of the two editors
\* ------------------------------------------------------------------------
\* "daily" is DailyNotes (items, saveTimeoutRef), "note" is NoteEditor (title
\* and blocks, saveTimerRef).  What an editor shows is told apart by the
\* number of the edit that wrote it: title and body are edit numbers.
EditorKinds == {"daily", "note"}
TimerIds == 1..3

autosaveFrame ==
    <<dbVars, serverTz, req, resp, raceVars, clientTz, grid, fmt, codec, cols, editor,
      todo, habit, tab>>

\* The component mounts: no timer yet, saveTimeoutRef.current is null (0).
MountEditor(kind) ==
    /\ autosave = NoCall
    /\ autosave' = [kind |-> kind, mounted |-> TRUE, title |-> 0, body |-> 0, edits |-> 0,
                    timers |-> {}, ref |-> 0, sent |-> 0, last |-> NoCall, late |-> FALSE,
                    picker |-> NoCall]
    /\ UNCHANGED autosaveFrame

\* triggerAutoSave: clearTimeout of the timer the ref names, then setTimeout
\* of a new one that keeps the arguments of this call.
triggerAutoSave(a, title, body) ==
    LET left == {t \in a.timers : t.id # a.ref}
        id == CHOOSE i \in TimerIds :
                 /\ i \notin {t.id : t \in left} \cup {a.ref}
                 /\ \A j \in 1..(i - 1) : j \in {t.id : t \in left} \cup {a.ref}
    IN  [a EXCEPT !.timers = left \cup {[id |-> id, title |-> title, body |-> body]},
                  !.ref = id]

\* An edit of the items (addTask, toggleTask, deleteTask, saveEdit,
\* setReminder, handleDrop) or of the blocks (updateBlocks).
EditBody ==
    /\ autosave # NoCall /\ autosave.mounted
    /\ autosave.edits < MaxEdits
    /\ LET n == autosave.edits + 1
       IN  autosave' = triggerAutoSave([autosave EXCEPT !.body = n, !.edits = n],
                                       autosave.title, n)
    /\ UNCHANGED autosaveFrame

\* handleTitleChange(val)
EditTitle ==
    /\ autosave # NoCall /\ autosave.mounted /\ autosave.kind = "note"
    /\ autosave.edits < MaxEdits
    /\ LET n == autosave.edits + 1
       IN  autosave' = triggerAutoSave([autosave EXCEPT !.title = n, !.edits = n],
                                       n, autosave.body)
    /\ UNCHANGED autosaveFrame

\* insertImageAfter up to input.click(): the callbacks it sets keep the
\* updateBlocks of this render, and with it this render's title.
PickImage ==
    /\ autosave # NoCall /\ autosave.mounted /\ autosave.kind = "note"
    /\ autosave.picker = NoCall
    /\ autosave' = [autosave EXCEPT !.picker = [title |-> autosave.title]]
    /\ UNCHANGED autosaveFrame

\* reader.onload: updateBlocks(newBlocks) of the render that opened the dialog.
ImageLoadedSave ==
    /\ autosave # NoCall /\ autosave.mounted /\ autosave.picker # NoCall
    /\ autosave.edits < MaxEdits
    /\ LET n == autosave.edits + 1
       IN  autosave' = triggerAutoSave([autosave EXCEPT !.body = n, !.edits = n,
                                                         !.picker = NoCall],
                                       autosave.picker.title, n)
    /\ UNCHANGED autosaveFrame

\* The component unmounts.  DailyNotes has a cleanup effect that clears the
\* timer its ref names; NoteEditor has none.
UnmountEditor ==
    /\ autosave # NoCall /\ autosave.mounted
    /\ autosave' = [autosave EXCEPT
          !.mounted = FALSE,
          !.timers = IF autosave.kind = "daily"
                     THEN {t \in autosave.timers : t.id # autosave.ref} ELSE @]
    /\ UNCHANGED autosaveFrame

\* A timer runs out: the save request goes out with what the timer kept.
TimerFires ==
    /\ autosave # NoCall
    /\ \E t \in autosave.timers :
          autosave' = [autosave EXCEPT !.timers = @ \ {t},
                                       !.sent = @ + 1,
                                       !.last = [title |-> t.title, body |-> t.body],
                                       !.late = @ \/ ~autosave.mounted]
    /\ UNCHANGED autosaveFrame

NextAutosave ==
    \/ \E k \in EditorKinds : MountEditor(k)
    \/ EditBody
    \/ EditTitle
    \/ PickImage
    \/ ImageLoadedSave
    \/ UnmountEditor
    \/ TimerFires

SpecAutosave == Init /\ [][NextAutosave]_vars

\* ------------------------------------------------------------------------
\* One habit checkbox and the request behind it
\* ------------------------------------------------------------------------
habitFrame ==
    <<dbVars, serverTz, req, resp, raceVars, clientTz, grid, fmt, codec, cols, editor,
      autosave, todo, tab>>

\* The completion lists a task can arrive with: any of the days, each as the
\* noon-UTC instant the server stores.
LoadedCompletions ==
    SUBSET {[date |-> IsoNoon(d), completed |-> TRUE] : d \in Days}

\* What fetch and response.ok can come to.
FetchOutcomes == {"ok", "notOk", "networkError"}

\* The grid renders the checkbox of one task in the column of a date:
\* useState(checked).
MountCheckbox(comps, col) ==
    /\ habit = NoCall
    /\ habit' = [date |-> col.dateString, completions |-> comps,
                 isChecked |-> isTaskCompletedOnDate(comps, col.date, clientTz),
                 isLoading |-> FALSE, click |-> NoCall, outcome |-> "none"]
    /\ UNCHANGED habitFrame

\* handleToggle up to the await: the box flips and the button is disabled.
ClickCheckbox ==
    /\ habit # NoCall /\ ~habit.isLoading
    /\ habit' = [habit EXCEPT
          !.isChecked = ~@, !.isLoading = TRUE,
          !.click = [newValue |-> ~habit.isChecked,
                     before |-> [isChecked |-> habit.isChecked,
                                 completions |-> habit.completions]],
          !.outcome = "none"]
    /\ UNCHANGED habitFrame

\* An error handler that leaves the box as the click set it.
KeepOnError(newValue) == newValue

\* catch { setIsChecked(!newValue) }
RevertOnError(newValue) == ~newValue

\* The request settles: handleToggleCompletion updates the task's list after
\* an ok response and throws otherwise; handleToggle's catch and finally.
ToggleSettles(outcome) ==
    /\ habit # NoCall /\ habit.isLoading
    /\ habit' = [habit EXCEPT
          !.completions = IF outcome = "ok"
                          THEN LocalCompletions(@, habit.date, habit.click.newValue, clientTz)
                          ELSE @,
          !.isChecked = IF outcome = "ok" THEN @ ELSE RevertOnError(habit.click.newValue),
          !.isLoading = FALSE,
          !.outcome = outcome]
    /\ UNCHANGED habitFrame

NextCheckbox ==
    \/ \E comps \in LoadedCompletions, col \in Columns(clientTz) : MountCheckbox(comps, col)
    \/ ClickCheckbox
    \/ \E o \in FetchOutcomes : ToggleSettles(o)

SpecCheckbox == InitClient /\ [][NextCheckbox]_vars

\* ------------------------------------------------------------------------
\* Drag and drop in the habit grid
\* ------------------------------------------------------------------------
\* The two handleDrop implementations of the repository, named by file.
GridFiles == {"habit-checkbox.tsx", "habit-grid.tsx"}

\* The rows of the grid, one more than MaxTasks so that a drop can move a row
\* over another.
GridIds == 1..(MaxTasks + 1)
GridOrders == {l \in [GridIds -> GridIds] : \A i, j \in GridIds : l[i] = l[j] => i = j}

\* The grid mounts with the tasks in the server's order.
MountGrid(file, order) ==
    /\ habit = NoCall
    /\ habit' = [file |-> file, tasks |-> order, server |-> order, drop |-> NoCall,
                 outcome |-> "none"]
    /\ UNCHANGED habitFrame

\* newTasks.splice(draggedIndex, 1); newTasks.splice(targetIndex, 0, dragged)
MoveRow(list, draggedIndex, targetIndex) ==
    LET without == SubSeq(list, 1, draggedIndex - 1) \o
                   SubSeq(list, draggedIndex + 1, Len(list))
    IN  SubSeq(without, 1, targetIndex - 1) \o <<list[draggedIndex]>> \o
        SubSeq(without, targetIndex, Len(without))

\* handleDrop up to the await: the rows are shown in the new order and the
\* request is sent, with POST from habit-checkbox.tsx and PUT from
\* habit-grid.tsx.
\* Drops are taken one request at a time.
DropRow(draggedIndex, targetIndex) ==
    /\ habit # NoCall /\ habit.outcome # "pending"
    /\ draggedIndex # targetIndex
    /\ habit' = [habit EXCEPT
          !.tasks = MoveRow(@, draggedIndex, targetIndex),
          !.drop = [before |-> habit.tasks,
                    method |-> IF habit.file = "habit-grid.tsx" THEN "PUT" ELSE "POST",
                    taskIds |-> MoveRow(habit.tasks, draggedIndex, targetIndex)],
          !.outcome = "pending"]
    /\ UNCHANGED habitFrame

\* What the request can come to: the reorder route serves PUT only, so a
\* POST is never answered with success.
DropOutcomes(method) == IF method = "PUT" THEN FetchOutcomes ELSE FetchOutcomes \ {"ok"}

\* Whether handleDrop calls setTasks(tasks) for an outcome: habit-grid.tsx on
\* !response.ok and in its catch, habit-checkbox.tsx in its catch only.
RevertsOn(file, outcome) ==
    IF file = "habit-grid.tsx" THEN outcome \in {"notOk", "networkError"}
    ELSE outcome = "networkError"

\* The request settles; a successful PUT has put the server in the order sent.
DropSettles(outcome) ==
    /\ habit # NoCall /\ habit.outcome = "pending"
    /\ outcome \in DropOutcomes(habit.drop.method)
    /\ habit' = [habit EXCEPT
          !.server = IF outcome = "ok" THEN habit.drop.taskIds ELSE @,
          !.tasks = IF RevertsOn(habit.file, outcome) THEN habit.drop.before ELSE @,
          !.outcome = outcome]
    /\ UNCHANGED habitFrame

NextDrop ==
    \/ \E f \in GridFiles, l \in GridOrders : MountGrid(f, l)
    \/ \E i, j \in GridIds : DropRow(i, j)
    \/ \E o \in FetchOutcomes : DropSettles(o)

SpecDrop == Init /\ [][NextDrop]_vars

\* ------------------------------------------------------------------------
\* The daily to-do view: items, autosave, save responses and reminders
\* ------------------------------------------------------------------------
\* The view stays on today's date with notifications granted.  Items are
\* added and edited in place, so an item is known by its position.
todoFrame ==
    <<dbVars, serverTz, req, resp, raceVars, clientTz, grid, fmt, codec, cols, editor,
      autosave, habit, tab>>

TypedTexts == {<<"a">>, <<"a", "a">>}

\* The minute on the clock against the one reminder time there is.
ClockNow == {"before", "at", "after"}

\* parseContent gives every item an id made of the line number, the time and
\* a random suffix: ids no earlier item had.
WithFreshIds(parsed, next) ==
    [i \in 1..Len(parsed) |->
        [id |-> next + i - 1, text |-> parsed[i].text, completed |-> parsed[i].completed,
         reminderTime |-> parsed[i].reminderTime]]

\* checkReminders, which the effect runs whenever notes or items change and
\* every 15 seconds: an item that is due and whose key is not in
\* firedRemindersRef is notified and its key added.
checkReminders(t) ==
    LET due == {i \in 1..Len(t.items) :
                   /\ t.items[i].reminderTime # NoReminder
                   /\ ~t.items[i].completed
                   /\ t.clock = "at"
                   /\ <<t.items[i].id, t.items[i].reminderTime>> \notin t.fired}
    IN  [t EXCEPT !.fired = @ \cup {<<t.items[i].id, t.items[i].reminderTime>> : i \in due},
                  !.notified = [p \in DOMAIN @ |-> IF p \in due THEN @[p] + 1 ELSE @[p]]]

\* The note of today the view mounts with, and the items loadNote parses
\* from it.
MountTodo(content, clock) ==
    /\ todo = NoCall
    /\ todo' = checkReminders(
          [items |-> WithFreshIds(parseContent(content), 1),
           nextId |-> 1 + Len(parseContent(content)),
           cache |-> content, timer |-> NoCall, flying |-> <<>>,
           editingId |-> 0, edits |-> 0, clock |-> clock, fired |-> {},
           notified |-> [p \in 1..MaxItems |-> 0]])
    /\ UNCHANGED todoFrame

\* setItems(newItems); triggerAutoSave(newItems)
EditItems(newItems) ==
    /\ todo.edits < MaxEdits
    /\ todo' = checkReminders([todo EXCEPT !.items = newItems, !.timer = newItems,
                                           !.edits = @ + 1])
    /\ UNCHANGED todoFrame

addTask(text) ==
    /\ todo # NoCall
    /\ Len(todo.items) < MaxItems
    /\ todo.edits < MaxEdits
    /\ todo' = checkReminders(
          [todo EXCEPT !.items = Append(@, [id |-> todo.nextId, text |-> text,
                                            completed |-> FALSE,
                                            reminderTime |-> NoReminder]),
                       !.timer = Append(todo.items, [id |-> todo.nextId, text |-> text,
                                                     completed |-> FALSE,
                                                     reminderTime |-> NoReminder]),
                       !.nextId = @ + 1,
                       !.edits = @ + 1])
    /\ UNCHANGED todoFrame

toggleTask(i) ==
    /\ todo # NoCall
    /\ i \in 1..Len(todo.items)
    /\ EditItems([todo.items EXCEPT ![i].completed = ~@])

setReminder(i, time) ==
    /\ todo # NoCall
    /\ i \in 1..Len(todo.items)
    /\ todo.items[i].reminderTime # time
    /\ EditItems([todo.items EXCEPT ![i].reminderTime = time])

startEditing(i) ==
    /\ todo # NoCall
    /\ i \in 1..Len(todo.items)
    /\ todo.editingId = 0
    /\ todo' = [todo EXCEPT !.editingId = todo.items[i].id]
    /\ UNCHANGED todoFrame

\* saveEdit with a text that is not blank: the item whose id is editingId
\* gets the text, if there is one.
saveEdit(text) ==
    /\ todo # NoCall
    /\ todo.editingId # 0
    /\ todo.edits < MaxEdits
    /\ todo' = checkReminders(
          [todo EXCEPT
              !.items = [i \in 1..Len(@) |->
                            IF @[i].id = todo.editingId THEN [@[i] EXCEPT !.text = text]
                            ELSE @[i]],
              !.timer = [i \in 1..Len(todo.items) |->
                            IF todo.items[i].id = todo.editingId
                            THEN [todo.items[i] EXCEPT !.text = text]
                            ELSE todo.items[i]],
              !.editingId = 0,
              !.edits = @ + 1])
    /\ UNCHANGED todoFrame

\* The autosave timer runs out: saveNote posts serializeItems of the items
\* the timer kept.
TodoTimerFires ==
    /\ todo # NoCall
    /\ todo.timer # NoCall
    /\ todo' = [todo EXCEPT !.flying = Append(@, serializeItems(todo.timer)),
                            !.timer = NoCall]
    /\ UNCHANGED todoFrame

\* What the items become when a save response has been stored in notes:
\* setNotes gives loadNote a new identity, the effect on [selectedDate,
\* loadNote] runs it, and it finds notes[key] and parses its content.
ItemsReloaded(t, content) ==
    [items |-> WithFreshIds(parseContent(content), t.nextId),
     nextId |-> t.nextId + Len(parseContent(content))]

\* The response of the oldest save in flight arrives with success.
SaveResponds ==
    /\ todo # NoCall
    /\ todo.flying # <<>>
    /\ LET content == Head(todo.flying)
           after == ItemsReloaded(todo, content)
       IN  todo' = checkReminders([todo EXCEPT !.flying = Tail(@), !.cache = content,
                                               !.items = after.items,
                                               !.nextId = after.nextId])
    /\ UNCHANGED todoFrame

\* The clock moves to the next minute of interest; the interval runs
\* checkReminders within it.
ClockTicks ==
    /\ todo # NoCall
    /\ todo.clock # "after"
    /\ todo' = checkReminders([todo EXCEPT !.clock = IF @ = "before" THEN "at" ELSE "after"])
    /\ UNCHANGED todoFrame

\* The notes the view can mount with: none, or one item with a reminder.
MountContents ==
    {<<>>} \cup
    {serializeItems(<<[text |-> t, completed |-> FALSE, reminderTime |-> r]>>) :
        t \in TypedTexts, r \in ReminderTimes \cup {NoReminder}}

NextTodo ==
    \/ \E c \in MountContents, k \in ClockNow : MountTodo(c, k)
    \/ \E t \in TypedTexts : addTask(t)
    \/ \E i \in 1..MaxItems : toggleTask(i)
    \/ \E i \in 1..MaxItems, r \in ReminderTimes \cup {NoReminder} : setReminder(i, r)
    \/ \E i \in 1..MaxItems : startEditing(i)
    \/ \E t \in TypedTexts : saveEdit(t)
    \/ TodoTimerFires
    \/ SaveResponds
    \/ ClockTicks

SpecTodo == Init /\ [][NextTodo]_vars

\* ------------------------------------------------------------------------
\* Stored content parsed, serialized and parsed again
\* ------------------------------------------------------------------------
\* The lines of a stored note: a checkbox, the continuation marker or
\* nothing in front, then up to MaxText - 1 pieces that are no line break.
LinePrefixes == {<<"[", " ", "]", " ">>, <<"[", "x", "]", " ">>, <<" ", " ">>, <<>>}
LineBodies == UNION {[1..n -> Alphabet \ {"\n"}] : n \in 0..(MaxText - 1)}
StoredLines == {p \o b : p \in LinePrefixes, b \in LineBodies}

\* The content strings: one line or two.
StoredNotes == StoredLines \cup {a \o <<"\n">> \o b : a \in StoredLines, b \in StoredLines}

\* The view holds the content of any stored note.
InitReparse ==
    /\ tasks = {} /\ completions = {} /\ notes = {} /\ dailyNotes = {}
    /\ nextTask = 0 /\ nextNote = 0
    /\ serverTz \in ServerOffsets
    /\ req = NoRequest
    /\ resp = Response(0, NoData, 0)
    /\ inflight = [p \in Slots |-> Idle(0)]
    /\ clientTz = 0
    /\ grid = NoGrid
    /\ fmt = NoCall
    /\ codec \in {[content |-> c, stage |-> "stored", parsed |-> <<>>, again |-> <<>>]
                     : c \in StoredNotes}
    /\ cols = NoCall
    /\ editor = NoCall
    /\ WidgetsClosed

\* loadNote: setItems(parseContent(content)).
ParseStored ==
    /\ codec.stage = "stored"
    /\ codec' = [codec EXCEPT !.stage = "parsed", !.parsed = parseContent(codec.content)]
    /\ UNCHANGED <<dbVars, serverTz, req, resp, raceVars, clientTz, grid, fmt, uiVars>>

\* The items go through saveNote's serializeItems and are parsed from the
\* saved content.
ParseSaved ==
    /\ codec.stage = "parsed"
    /\ codec' = [codec EXCEPT !.stage = "again",
                              !.again = parseContent(serializeItems(codec.parsed))]
    /\ UNCHANGED <<dbVars, serverTz, req, resp, raceVars, clientTz, grid, fmt, uiVars>>

NextReparse == ParseStored \/ ParseSaved

SpecReparse == InitReparse /\ [][NextReparse]_vars

\* ------------------------------------------------------------------------
\* The dashboard's tab and local storage
\* ------------------------------------------------------------------------
tabFrame ==
    <<dbVars, serverTz, req, resp, raceVars, clientTz, grid, fmt, codec, cols, editor,
      autosave, todo, habit>>

\* TABS.map(t => t.id)
TABS == {"habits", "todos", "notes"}

\* localStorage.getItem('dashboard-tab') in a browser that opens the
\* dashboard: null, a tab id, or something else.
NoItem == "null"
StoredTabs == TABS \cup {NoItem, "", "settings"}

\* The browser arrives with whatever it has stored.
OpenBrowser(saved) ==
    /\ tab = NoCall
    /\ tab' = [storage |-> saved, mounted |-> FALSE, activeTab |-> "habits",
               selected |-> NoItem, mounts |-> 0, changes |-> 0]
    /\ UNCHANGED tabFrame

\* DashboardContent mounts: useState('habits'), then the effect that reads
\* the stored preference and turns a stored 'notes' into 'todos'.
MountDashboard ==
    /\ tab # NoCall /\ ~tab.mounted
    /\ tab.mounts < MaxEdits
    /\ tab' = [tab EXCEPT
          !.mounted = TRUE,
          !.mounts = @ + 1,
          !.storage = IF @ = "notes" THEN "todos" ELSE @,
          !.activeTab = IF tab.storage = "notes" THEN "todos"
                        ELSE IF tab.storage \notin {NoItem, ""} /\ tab.storage \in TABS
                        THEN tab.storage
                        ELSE "habits"]
    /\ UNCHANGED tabFrame

handleTabChange(tabId) ==
    /\ tab # NoCall /\ tab.mounted
    /\ tab.changes < MaxEdits
    /\ tab' = [tab EXCEPT !.activeTab = tabId, !.storage = tabId, !.selected = tabId,
                          !.changes = @ + 1]
    /\ UNCHANGED tabFrame

\* The user leaves the dashboard or reloads the page; the component's state
\* is gone and the next mount starts from useState('habits').
UnmountDashboard ==
    /\ tab # NoCall /\ tab.mounted
    /\ tab' = [tab EXCEPT !.mounted = FALSE, !.activeTab = "habits"]
    /\ UNCHANGED tabFrame

NextTab ==
    \/ \E v \in StoredTabs : OpenBrowser(v)
    \/ MountDashboard
    \/ \E t \in TABS : handleTabChange(t)
    \/ UnmountDashboard

SpecTab == Init /\ [][NextTab]_vars

\* ------------------------------------------------------------------------
\* Properties of the API
\* ------------------------------------------------------------------------
\* The completion rows of a task whose stored date falls on the calendar
\* day the server reads in a date string.
RowsOn(taskId, dateStr) ==
    {c \in completions :
        /\ c.taskId = taskId
        /\ UTCParts(c.date) = LocalParts(NewDate(dateStr), serverTz)}

IsToggle(r) == r.op = "POST /api/completions" /\ ValidToggleBody(r.body)

\* C1: a toggle-completion call by the owner of the task succeeds and leaves
\* exactly one completion row, with completed = true, for the (task, date)
\* when it carried completed = true, and no row when it carried
\* completed = false, whatever calls came before it.
C1_ToggleLeavesOneOrNoRow ==
    (IsToggle(req) /\ FindTask(req.body.taskId, req.user) # {}) =>
        /\ resp.status = 200
        /\ IF req.body.completed
           THEN /\ Cardinality(RowsOn(req.body.taskId, req.body.date)) = 1
                /\ \A c \in RowsOn(req.body.taskId, req.body.date) : c.completed
           ELSE RowsOn(req.body.taskId, req.body.date) = {}

\* An un-check that found a row and removed it (three queries), while a
\* row of another day of the task is still there.
C1_Witness ==
    /\ IsToggle(req)
    /\ ~req.body.completed
    /\ resp.status = 200
    /\ resp.dbCalls = 3
    /\ \E c \in completions : c.taskId = req.body.taskId

\* The rows a user owns.
OwnedRows(v) ==
    <<{t \in tasks : t.userId = v},
      {c \in completions : \E t \in tasks : t.id = c.taskId /\ t.userId = v},
      {n \in notes : n.userId = v}>>

\* The task ids and the note ids a request names.
NamedTasks(r) ==
    IF r.op \in {"GET /api/tasks/{id}", "PATCH /api/tasks/{id}", "DELETE /api/tasks/{id}"}
    THEN {r.id}
    ELSE IF IsToggle(r) THEN {r.body.taskId}
    ELSE IF r.op = "PUT /api/tasks/reorder" THEN SeqRange(r.taskIds)
    ELSE {}

NamedNotes(r) ==
    IF r.op \in {"GET /api/user-notes/{id}", "DELETE /api/user-notes/{id}"} THEN {r.id}
    ELSE IF r.op = "PUT /api/user-notes/{id}" /\ r.body \in NoteBodies THEN {r.id}
    ELSE {}

\* The rows a list response returns all belong to the caller.
ListIsOwn(r, data) ==
    /\ r.op = "GET /api/tasks" =>
          \A i \in DOMAIN data :
              /\ data[i].userId = r.user
              /\ \A c \in data[i].completions : c.taskId = data[i].id
    /\ r.op = "GET /api/completions" =>
          \A c \in data : \E t \in tasks : t.id = c.taskId /\ t.userId = r.user
    /\ r.op = "GET /api/user-notes" => \A n \in data : n.userId = r.user

C4_NoSessionNoDatabase ==
    [][req'.user = NoSession =>
          (resp'.status = 401 /\ resp'.dbCalls = 0 /\ dbVars' = dbVars)]_vars

\* A toggle without a session on a task that exists, answered 401.
C4_Witness ==
    /\ req.user = NoSession
    /\ IsToggle(req)
    /\ \E t \in tasks : t.id = req.body.taskId
    /\ resp.status = 401

IsReorder(r) == r.op = "PUT /api/tasks/reorder"
ActiveIds(user) == {t.id : t \in {x \in tasks : x.userId = user /\ x.isActive}}
IsPermutationOf(q, ids) == SeqRange(q) = ids /\ Len(q) = Cardinality(ids)

\* C8: after a successful reorder whose list is a permutation of the
\* caller's active tasks, the task at (0-based) position i has sortOrder i
\* and GET /api/tasks lists the tasks in the order of the list.
C8_ReorderSetsPositions ==
    (IsReorder(req) /\ resp.status = 200
        /\ IsPermutationOf(req.taskIds, ActiveIds(req.user))) =>
        /\ \A i \in DOMAIN req.taskIds :
              \A t \in tasks : t.id = req.taskIds[i] => t.sortOrder = i - 1
        /\ [i \in DOMAIN ListTasks(req.user, NoRange) |->
               ListTasks(req.user, NoRange)[i].id] = req.taskIds

\* A successful reorder that puts the younger of two active tasks first.
C8_Witness ==
    /\ IsReorder(req)
    /\ resp.status = 200
    /\ IsPermutationOf(req.taskIds, ActiveIds(req.user))
    /\ Len(req.taskIds) >= 2
    /\ req.taskIds[1] > req.taskIds[2]

C10_DeleteCascades ==
    (req.op = "DELETE /api/tasks/{id}" /\ resp.status = 200) =>
        /\ \A c \in completions : c.taskId # req.id
        /\ \A u \in Users, r \in DateRanges :
              \A c \in ListCompletions(u, r) : c.taskId # req.id

\* A successful delete of a task that was created after another task whose
\* completions are still there.
C10_Witness ==
    /\ req.op = "DELETE /api/tasks/{id}"
    /\ resp.status = 200
    /\ completions # {}
    /\ \A c \in completions : c.taskId # req.id

\* C2: whatever way toggle requests of any users interleave, no two
\* completion rows share a task and a calendar date, and no row has
\* completed = false.
C2_OneRowPerTaskAndDay ==
    /\ \A c, d \in completions :
          (c.taskId = d.taskId /\ UTCParts(c.date) = UTCParts(d.date)) => c = d
    /\ \A c \in completions : c.completed

\* Two requests passed the existence check before either wrote: one has
\* created the row, the other has not written yet.
C2_Witness ==
    \E p, q \in Slots :
        /\ p # q
        /\ inflight[p].pc = "write" /\ inflight[p].existing = {}
        /\ inflight[p].body.completed
        /\ inflight[q].status = 200
        /\ FindCompletion(completions, inflight[p].body.taskId,
                          parseToUTCNoon(inflight[p].body.date, serverTz)) # {}

\* C5: in every client zone from UTC-12 to UTC+14, a grid toggle to true of
\* the column of day D stores a completion row of that task whose UTC
\* calendar date is D, and after the reload the column of D is checked and
\* no other column changed.
C5_GridToggleStoresColumnDay ==
    (grid # NoGrid /\ grid.stage # "loaded" /\ grid.last.completed) =>
        /\ grid.stage = "toggled" =>
              \E c \in completions :
                  c.taskId = grid.last.taskId /\ UTCParts(c.date) = grid.last.date
        /\ grid.stage = "reloaded" =>
              \A col \in Columns(clientTz) :
                  <<grid.last.taskId, col.dateString>> \in grid.checked
                      <=> col.dateString \in grid.last.before \cup {grid.last.date}

\* C6: in every zone from UTC-12 to UTC+14 the UTC year, month and day of
\* formatDateForStorage(d) are the local year, month and day of d.
C6_StorageDateIsLocalDate ==
    fmt # NoCall => UTCParts(NewDate(fmt.out)) = LocalParts(fmt.in, clientTz)

\* A call whose instant falls on different calendar days locally and in UTC.
C6_Witness ==
    /\ fmt # NoCall
    /\ LocalParts(fmt.in, clientTz) # UTCParts(fmt.in)
    /\ clientTz \in {-12, 14}
    /\ UTCParts(NewDate(fmt.out)) = LocalParts(fmt.in, clientTz)

\* A line of the text that starts with the two spaces of the continuation
\* marker.
StartsWithMarker(text) ==
    \E i \in 1..Len(Split(text)) :
        LET line == Split(text)[i]
        IN  Len(line) >= 2 /\ line[1] = " " /\ line[2] = " "

\* C7: for every list of to-do items none of whose lines starts with the
\* continuation marker, parseContent(serializeItems(L)) has the length and
\* order of L and the same text, completed flag and reminder time per item.
C7_RoundTrip ==
    (codec # NoCall /\ codec.loaded
        /\ \A i \in 1..Len(codec.items) : ~StartsWithMarker(codec.items[i].text))
        => codec.parsed = codec.items

\* The bodies C11 names: a name outside 1 to 100 characters, a description
\* longer than 500 characters, or a color that is not # and six hex digits.
NamedInvalid(body) ==
    \/ "name" \notin DOMAIN body
    \/ Len(body.name) = 0
    \/ Len(body.name) > 100
    \/ "description" \in DOMAIN body /\ Len(body.description) > 500
    \/ "color" \in DOMAIN body /\
          ~(Len(body.color) = 7 /\ body.color[1] = "#" /\
            \A i \in 2..7 : body.color[i] \in HexDigits)

\* C11: POST /api/tasks by a signed-in caller with such a body answers 400
\* and leaves the task table as it was.
C11_InvalidTaskIsRejected ==
    [][(req'.op = "POST /api/tasks" /\ req'.user # NoSession /\ NamedInvalid(req'.body))
          => (resp'.status = 400 /\ tasks' = tasks /\ nextTask' = nextTask)]_vars

\* A body whose only fault is the color "red" was answered 400 while rows
\* exist.
C11_Witness ==
    /\ req.op = "POST /api/tasks"
    /\ req.user \in Users
    /\ DOMAIN req.body = {"name", "color"}
    /\ req.body.name = Letters(1)
    /\ req.body.color = <<"r", "e", "d">>
    /\ resp.status = 400
    /\ tasks # {}

\* C12: after a PATCH of the owner that carried isCompleted and was answered
\* 200, the task's row holds that value of isCompleted.
C12_PatchStoresIsCompleted ==
    (req.op = "PATCH /api/tasks/{id}" /\ resp.status = 200
        /\ "isCompleted" \in DOMAIN req.body)
        => \E t \in tasks : t.id = req.id /\ t.isCompleted = req.body.isCompleted

\* C13: for every centerDate and every daysToShow >= 1, generateDateColumns
\* returns exactly daysToShow consecutive calendar days, the first of them
\* floor(daysToShow / 2) days before centerDate.
C13_ColumnsAreDaysToShowDays ==
    cols # NoCall =>
        /\ ~cols.out.threw
        /\ Len(cols.out.columns) = cols.days
        /\ \A i \in 1..Len(cols.out.columns) :
              cols.out.columns[i].dateString =
                  CivilFromDays(FloorDiv(cols.center + clientTz, 24)
                                    - cols.days \div 2 + i - 1)

\* C14: the open editor always holds at least one block, and a deletion
\* that started from a single block leaves exactly one empty text block.
C14_EditorKeepsABlock ==
    editor # NoCall =>
        /\ Len(editor.blocks) >= 1
        /\ (editor.last.op \in DeleteOps /\ editor.last.count = 1) =>
              /\ Len(editor.blocks) = 1
              /\ editor.blocks[1].type = "text"
              /\ editor.blocks[1].content = <<>>

\* The only block was deleted.
C14_Witness ==
    /\ editor # NoCall
    /\ editor.last.op \in DeleteOps
    /\ editor.last.count = 1
    /\ Len(editor.blocks) = 1

\* C15: after a deletion by the delete button, or by Enter or Backspace in
\* an empty checklist item, no two neighbouring blocks are both text.
C15_NoNeighbouringTextBlocks ==
    (editor # NoCall /\ editor.last.op \in DeleteOps) =>
        \A i \in 1..(Len(editor.blocks) - 1) :
            ~(editor.blocks[i].type = "text" /\ editor.blocks[i + 1].type = "text")

\* A deletion between two text blocks merged them.
C15_Witness ==
    /\ editor # NoCall
    /\ editor.last.op \in DeleteOps
    /\ editor.last.count = 3
    /\ Len(editor.blocks) = 1
    /\ editor.blocks[1].content = <<"a", "\n", "a">>

\* The daily-note rows of a user whose stored date falls on the UTC calendar
\* day a date string names.
DailyRowsOn(user, dateStr) ==
    {n \in dailyNotes : n.userId = user /\ UTCParts(n.date) = UTCParts(NewDate(dateStr))}

C17_MalformedIs400BeforeDatabase ==
    (req.user \in Users /\ MalformedRequest(req)) =>
        (resp.status = 400 /\ resp.dbCalls = 0)

\* C17 without PATCH /api/tasks/{id}: the other handlers validate first.
C17_ExceptPatch ==
    (req.user \in Users /\ MalformedRequest(req) /\ req.op # "PATCH /api/tasks/{id}") =>
        (resp.status = 400 /\ resp.dbCalls = 0)

\* C18: a DELETE /api/notes of a signed-in user for a day on which that user
\* has no daily note is answered 404 and leaves every row as it was.
C18_DeleteOfAbsentNoteIs404 ==
    [][(/\ req'.op = "DELETE /api/notes"
        /\ req'.user \in Users
        /\ req'.date # NoRange
        /\ DailyRowsOn(req'.user, req'.date) = {})
          => (resp'.status = 404 /\ dailyNotes' = dailyNotes)]_vars

\* C19: when a toggle request with completed = true that saw no row for its
\* task and day comes to its create, the create succeeds with 200 and leaves
\* one row if no other request has created the row meanwhile; if another
\* has, the request ends with 500, writes nothing, and the one row stays.
C19_RacingCreateFailsWith500 ==
    [][\A p \in Slots :
          (/\ inflight[p].pc = "write" /\ inflight'[p].pc = "idle"
           /\ inflight[p].existing = {} /\ inflight[p].body.completed)
          => LET taskId == inflight[p].body.taskId
                 date == parseToUTCNoon(inflight[p].body.date, serverTz)
             IN  /\ Cardinality(FindCompletion(completions', taskId, date)) = 1
                 /\ IF FindCompletion(completions, taskId, date) = {}
                    THEN inflight'[p].status = 200
                    ELSE inflight'[p].status = 500 /\ completions' = completions]_vars

\* Both requests have ended, one with 200 and the other with 500 (where every
\* request asks for completed = true a 500 can only be the failed create),
\* and the one row is there.
C19_Witness ==
    \E p, q \in Slots :
        /\ inflight[p] = Idle(200) /\ inflight[q] = Idle(500)
        /\ Cardinality(completions) = 1

\* C20: when an update of a reorder request fails, the request is answered
\* 500 and the sort orders its earlier updates wrote stay as written: the
\* failing step changes no row, no later step of the request touches a row
\* it has already updated, and a request that has failed never answers 200.
C20_FailedReorderKeepsAppliedUpdates ==
    [][\A p \in Slots :
          (inflight[p].pc = "updates" /\ inflight'[p] # inflight[p])
          => LET r == inflight[p]
             IN  /\ (r.status # 500 /\ inflight'[p].status = 500) => tasks' = tasks
                 /\ r.status = 500 => inflight'[p].status = 500
                 /\ \A i \in DOMAIN r.taskIds \ r.pending :
                       \A t \in tasks : t.id = r.taskIds[i] => t \in tasks']_vars

\* Every update of a request has settled, one of them failed, and a listed
\* task holds the position the request gave it, which it did not have before.
C20_Witness ==
    \E p \in Slots :
        /\ inflight[p].pc = "updates" /\ inflight[p].pending = {}
        /\ inflight[p].status = 500
        /\ \E i \in DOMAIN inflight[p].taskIds, t \in tasks :
              /\ t.id = inflight[p].taskIds[i]
              /\ t.sortOrder = i - 1
              /\ inflight[p].before[t.id] # i - 1

\* What C21 asks of one step of an editor.
OneTimerFullState ==
    /\ Cardinality(autosave'.timers) <= 1
    /\ autosave'.edits # autosave.edits => Cardinality(autosave'.timers) = 1
    /\ autosave'.sent # autosave.sent =>
          /\ autosave'.sent = autosave.sent + 1
          /\ autosave'.last = [title |-> autosave.title, body |-> autosave.body]

\* C21: an editor has at most one autosave timer pending, every edit leaves
\* exactly one armed, and a timer that fires issues one save request that
\* carries the title and the content the editor holds.
C21_OneTimerSavesLatestState ==
    [][(autosave # NoCall /\ autosave' # NoCall) => OneTimerFullState]_vars

\* C21 for the daily to-do editor alone, where it holds.
C21_DailyEditor ==
    [][(autosave # NoCall /\ autosave' # NoCall /\ autosave.kind = "daily")
          => OneTimerFullState]_vars

\* C22: once an editor is unmounted no autosave timer is pending and no save
\* request is issued.
C22_UnmountCancelsAutosave ==
    (autosave # NoCall /\ ~autosave.mounted) => (autosave.timers = {} /\ ~autosave.late)

\* C22 for the daily to-do editor alone, where it holds.
C22_DailyEditor ==
    (autosave # NoCall /\ ~autosave.mounted /\ autosave.kind = "daily")
        => (autosave.timers = {} /\ ~autosave.late)

\* C23: when the toggle request of a click has failed, the checkbox shows
\* what it showed before the click and the task's completion list is the one
\* it was before the click.
C23_FailedToggleReverts ==
    (habit # NoCall /\ habit.outcome \in {"notOk", "networkError"}) =>
        /\ habit.isChecked = habit.click.before.isChecked
        /\ habit.completions = habit.click.before.completions

\* A click that checked a box failed on the network, on a task that holds a
\* completion of another day.
C23_Witness ==
    /\ habit # NoCall /\ habit.outcome = "networkError"
    /\ habit.click.newValue
    /\ ~habit.isChecked
    /\ habit.completions # {}

\* What C24 asks of a grid whose reorder request has completed.
DropReverted ==
    /\ habit.outcome \in {"notOk", "networkError"} => habit.tasks = habit.drop.before
    /\ habit.outcome \in {"ok", "notOk", "networkError"} => habit.tasks = habit.server

\* C24: when the reorder request of a drop has failed, the grid shows the
\* order it showed before the drop, and once the request has completed the
\* order shown is the server's.
C24_FailedDropRestoresOrder ==
    habit # NoCall => DropReverted

\* C24 for the handleDrop of habit-grid.tsx alone, where it holds.
C24_HabitGridFile ==
    (habit # NoCall /\ habit.file = "habit-grid.tsx") => DropReverted

\* The items without their ids.
Plain(items) ==
    [i \in 1..Len(items) |-> [text |-> items[i].text, completed |-> items[i].completed,
                              reminderTime |-> items[i].reminderTime]]

\* C25: when the response of a save arrives, the items shown are the items
\* shown before it (nothing edited since the save was sent is lost), and an
\* item being edited is still in the list under its id.
C25_SaveResponseKeepsEdits ==
    [][(todo # NoCall /\ todo' # NoCall /\ Len(todo'.flying) < Len(todo.flying)) =>
          /\ Plain(todo'.items) = Plain(todo.items)
          /\ todo.editingId # 0 =>
                \E i \in 1..Len(todo'.items) : todo'.items[i].id = todo.editingId]_vars

\* C26: a reminder of an item is notified at most once on the day.
C26_OneNotificationPerReminder ==
    todo # NoCall => \A p \in DOMAIN todo.notified : todo.notified[p] <= 1

\* C27: the items parsed from a stored content are the items parsed from
\* their own serialization: same number and order, same text, completed
\* flag and reminder time.
C27_ParseIsStable ==
    codec.stage = "again" => codec.again = codec.parsed

\* C27 for contents whose lines all start with a checkbox or the
\* continuation marker, where it holds.
C27_NoBareLines ==
    (codec.stage = "again"
        /\ \A i \in 1..Len(Split(codec.content)) :
              \/ ChecklistMatch(Split(codec.content)[i])
              \/ (i > 1 /\ Len(Split(codec.content)[i]) >= 2
                        /\ SubSeq(Split(codec.content)[i], 1, 2) = <<" ", " ">>))
        => codec.again = codec.parsed

\* C28: when the image has loaded, the block list is the list the editor
\* held at that moment with the image block put in, whatever was edited
\* since the file dialog opened.
C28_ImageInsertKeepsEdits ==
    [][(editor # NoCall /\ editor.pending # NoCall /\ editor' # NoCall
        /\ editor'.pending = NoCall) =>
          \E k \in -1..(Len(editor.blocks) - 1) :
              editor'.blocks =
                  Renumber(InsertAfter(editor.blocks, k,
                               [id |-> FreshBlockId(editor.blocks), type |-> "image",
                                content |-> ImageContent, completed |-> FALSE]))]_vars

\* Every listed task that is still there sits at its position in the list.
MatchesList(taskIds) ==
    \A i \in DOMAIN taskIds : \A t \in tasks : t.id = taskIds[i] => t.sortOrder = i - 1

\* C29: when two reorder requests over the same tasks have run side by side
\* and every update of both has succeeded, the sort orders are the positions
\* of one of the two lists.
C29_ConcurrentReordersDoNotMix ==
    \A p, q \in Slots :
        (/\ p # q
         /\ inflight[p].pc = "updates" /\ inflight[q].pc = "updates"
         /\ inflight[p].pending = {} /\ inflight[q].pending = {}
         /\ inflight[p].status # 500 /\ inflight[q].status # 500
         /\ SeqRange(inflight[p].taskIds) = SeqRange(inflight[q].taskIds))
        => (MatchesList(inflight[p].taskIds) \/ MatchesList(inflight[q].taskIds))

\* C30: a mounted dashboard shows the tab handleTabChange selected last,
\* whether it was selected in this mount or in an earlier one.
C30_TabRoundTrips ==
    (tab # NoCall /\ tab.mounted /\ tab.selected # NoItem) => tab.activeTab = tab.selected

\* C30 for the tabs habits and todos alone, where it holds.
C30_HabitsAndTodos ==
    (tab # NoCall /\ tab.mounted /\ tab.selected \in {"habits", "todos"})
        => tab.activeTab = tab.selected
====
